---- MODULE Spec2Model ----
(***************************************************************************)
(* Coordination layer of the multi-agent content pipeline:                 *)
(*   - WorkflowStateMachine  (app/core/state_machine.py)                   *)
(*   - WorkflowOrchestrator  (app/core/workflow_orchestrator.py)           *)
(*   - AgentCommunicationHub (app/core/agent_communication.py)             *)
(*   - MemoryManager         (app/core/memory_manager.py)                  *)
(*   - BaseAgent             (app/core/base_agent.py)                      *)
(*   - WorkflowPersistence   (app/core/workflow_persistence.py)            *)
(*   - CoordinatorAgent      (app/agents/coordinator/coordinator_agent.py) *)
(* Strings of the program are kept as strings; texts are sequences of      *)
(* tokens; quality_score and progress are kept in hundredths.              *)
(***************************************************************************)
EXTENDS Integers, Sequences, FiniteSets, TLC

\* ------------------------------------------------------------------ bounds
MaxSubmissions == 2     \* submissions followed side by side (SubmitSpec)
MaxClock == 1           \* seconds the wall clock advances (SubmitSpec)
MaxCalls == 2           \* direct calls of the state machine (SMSpec)
MaxAgents == 3          \* agents a broadcast is followed with (BroadcastSpec)
MaxRegs == 2            \* successful registrations at one hub
MaxMsgs == 2            \* messages built by senders (uuid4 draws)
MaxHandlers == 2        \* handlers of one agent
MaxStarts == 1          \* calls of start() on one hub
MaxStores == 2          \* calls of store_memory
MaxExecutes == 1        \* calls of BaseAgent.execute
MaxRequests == 2        \* memories an agent asks for outside execute
MaxCoordinations == 3   \* execute calls on the coordinator
MaxSaves == 2           \* calls of save_workflow_state

\* ------------------------------------------------------- program constants
max_retries == 3
agent_max_retries == 3
retry_delay_seconds == 2

VARIABLES
    clock,        \* datetime.utcnow() truncated to the second (id generation)
    status,       \* WorkflowOrchestrator.status
    workflows,    \* WorkflowOrchestrator.workflows : execution_id -> WorkflowExecution
    tasks,        \* background tasks created by asyncio.create_task, in submission order
    sm,           \* a WorkflowStateMachine driven directly by a caller
    calls,        \* number of direct execute_workflow calls on sm so far
    entries,      \* hub: agents, message_queues, message_handlers by insertion slot
    running,      \* hub: AgentCommunicationHub.running
    loops,        \* hub: the _message_processor tasks created by start()
    getter,       \* hub: an outside caller inside get_messages
    nextId,       \* hub: the next message id (uuid4)
    ret,          \* hub: the last value returned to a caller
    openai_client,\* memory: whether the manager has a provider client
    memories,     \* memory: MemoryManager.memories
    embeddings,   \* memory: MemoryManager.embeddings
    stores,       \* memory: the calls of store_memory, in call order
    order,        \* memory: the keys of MemoryManager.memories in insertion order
    answer,       \* memory: the last value a call of the manager returned
    agent,        \* agent: BaseAgent.status and BaseAgent.state
    requested,    \* agent: the calls of BaseAgent.store_memory, in call order
    exec,         \* agent: a call of BaseAgent.execute
    files,        \* persistence: the files of each directory, by workflow id
    saves,        \* persistence: the calls of save_workflow_state, in call order
    pret,         \* persistence: the last value a call returned
    coord         \* coordinator: a CoordinatorAgent and its call of execute

hubvars == <<entries, running, loops, getter, nextId, ret>>
memvars == <<openai_client, memories, embeddings, stores, order, answer>>
agentvars == <<agent, requested, exec>>
persistvars == <<files, saves, pret>>
vars == <<clock, status, workflows, tasks, sm, calls, hubvars, memvars, agentvars,
          persistvars, coord>>

NoTime == -1
None == "None"

\* ------------------------------------------------ state_machine.py : context
WorkflowContext(workflow_id, topic) ==
    [ workflow_id      |-> workflow_id,
      topic            |-> topic,
      research_sources |-> <<>>,
      key_insights     |-> <<>>,
      draft_content    |-> <<>>,
      final_content    |-> <<>>,
      quality_score    |-> 0,
      current_state    |-> "pending",
      error_message    |-> None ]

update_state(ctx, new_state) == [ctx EXCEPT !.current_state = new_state]

\* ------------------------------------------------ state_machine.py : handlers
research_phase(ctx, fail) ==
    LET s == update_state(ctx, "researching") IN
    IF fail THEN [s EXCEPT !.error_message = "Research failed"]
    ELSE [s EXCEPT !.research_sources = <<"Sample Research Source">>,
                   !.key_insights = <<"Key insight 1", "Key insight 2">>]

write_phase(ctx, fail) ==
    LET s == update_state(ctx, "writing") IN
    IF fail THEN [s EXCEPT !.error_message = "Writing failed"]
    ELSE [s EXCEPT !.draft_content = <<"Sample content about", ctx.topic>>]

edit_phase_noFinal(ctx, fail) ==
    LET s == update_state(ctx, "editing") IN
    IF fail THEN [s EXCEPT !.error_message = "Editing failed"]
    ELSE [s EXCEPT !.quality_score = 85]

edit_phase(ctx, fail) ==
    LET s == update_state(ctx, "editing") IN
    IF fail THEN [s EXCEPT !.error_message = "Editing failed"]
    ELSE [s EXCEPT !.final_content = s.draft_content \o <<"[Edited and optimized]">>,
                   !.quality_score = 85]

complete_phase(ctx, fail) ==
    LET s == update_state(ctx, "completed") IN
    IF fail THEN [s EXCEPT !.error_message = "Completion failed"] ELSE s

error_handler(ctx) == update_state(ctx, "error")

should_continue(ctx) == IF ctx.error_message # None THEN "error" ELSE "continue"

\* ------------------------------------------------ state_machine.py : graph
Nodes == {"research", "write", "edit", "complete", "error_handler"}
EntryPoint == "research"

\* add_edge calls; the edges into END carry no successor node
Edges == { <<"research", "write">>, <<"write", "edit">>, <<"edit", "complete">> }

\* add_conditional_edges calls
ConditionalEdges ==
    [ research |-> [continue |-> "write",    error |-> "error_handler"],
      write    |-> [continue |-> "edit",     error |-> "error_handler"],
      edit     |-> [continue |-> "complete", error |-> "error_handler"] ]

\* Nodes triggered for the next superstep once node n has run and left ctx:
\* every outgoing edge of n fires, the plain ones and the routed one.
Successors(n, ctx) ==
    { e[2] : e \in { d \in Edges : d[1] = n } }
    \cup (IF n \in DOMAIN ConditionalEdges
          THEN { ConditionalEdges[n][should_continue(ctx)] }
          ELSE {})

RunNode(n, ctx, fail) ==
    CASE n = "research"      -> research_phase(ctx, fail)
      [] n = "write"         -> write_phase(ctx, fail)
      [] n = "edit"          -> edit_phase(ctx, fail)
      [] n = "complete"      -> complete_phase(ctx, fail)
      [] n = "error_handler" -> error_handler(ctx)

\* except branch of WorkflowStateMachine.execute_workflow
graph_failed(ctx) ==
    update_state([ctx EXCEPT !.error_message = "Workflow execution failed"], "error")


\* ------------------------------------------------ state_machine.py : a run
\* One call of WorkflowStateMachine.execute_workflow: the context and the
\* position of graph.ainvoke in it.
NoRun ==
    [ pc    |-> "idle",
      ctx   |-> WorkflowContext(NoTime, None),
      todo  |-> {},      \* nodes of the current superstep still to run
      nxt   |-> {},      \* nodes triggered for the next superstep
      par   |-> FALSE,   \* the current superstep holds several nodes
      trace |-> <<>> ]   \* handlers run so far, in order, with their outcome

\* execute_workflow up to the call of graph.ainvoke
NewRun(workflow_id, topic) ==
    [ pc    |-> "graph",
      ctx   |-> WorkflowContext(workflow_id, topic),
      todo  |-> {EntryPoint},
      nxt   |-> {},
      par   |-> FALSE,
      trace |-> <<>> ]

\* graph.ainvoke: node n of the current superstep runs.  When the superstep
\* is over the triggered nodes form the next one; a superstep of several
\* nodes writing the same fields may be rejected by the graph runtime, which
\* makes ainvoke raise into the except branch of execute_workflow.
CanStep(r, n, fail, conflict) ==
    /\ r.pc = "graph"
    /\ n \in r.todo
    /\ fail => n # "error_handler"
    /\ conflict => (r.par /\ r.todo = {n})

StepRun(r, n, fail, conflict) ==
    LET c1   == RunNode(n, r.ctx, fail)
        nxt1 == r.nxt \cup Successors(n, c1)
        rest == r.todo \ {n}
        r1   == [r EXCEPT !.trace = Append(@, [node |-> n, failed |-> fail])] IN
    IF rest # {}
    THEN [r1 EXCEPT !.ctx = c1, !.todo = rest, !.nxt = nxt1]
    ELSE IF conflict
    THEN [r1 EXCEPT !.ctx = graph_failed(c1), !.todo = {}, !.nxt = {},
                    !.par = FALSE, !.pc = "returned"]
    ELSE [r1 EXCEPT !.ctx = c1, !.todo = nxt1, !.nxt = {},
                    !.par = Cardinality(nxt1) > 1,
                    !.pc = IF nxt1 = {} THEN "returned" ELSE "graph"]

\* ------------------------------------------- workflow_orchestrator.py : data
Topics == {"Renewable Energy", "AI Agents in 2024"}

\* execution ids are "exec_" + the clock formatted to the second
ExecutionIds == 0..MaxClock

WorkflowExecution(execution_id, workflow_id, start_time) ==
    [ execution_id  |-> execution_id,
      workflow_id   |-> workflow_id,
      status        |-> "pending",
      start_time    |-> start_time,
      end_time      |-> NoTime,
      progress      |-> 0,
      error_message |-> None,
      metadata      |-> {} ]

\* self.workflows[execution_id] = workflow_execution
Put(d, k, v) == [x \in DOMAIN d \cup {k} |-> IF x = k THEN v ELSE d[x]]

\* the coroutine _execute_workflow_background_traced
BackgroundTask(execution_id, topic) ==
    [ execution_id |-> execution_id,
      topic        |-> topic,
      pc           |-> "scheduled",
      retries      |-> 0,
      runs         |-> 0,       \* calls of state_machine.execute_workflow so far
      run          |-> NoRun,   \* the call it is waiting for, or its last one
      flagged      |-> 0 ]      \* handlers started while paused/cancelled (capped at 2)

TaskIds == 1..Len(tasks)

LoopCond(retries) == retries <= max_retries

ShouldRetry_offByOne(retries) == retries <= max_retries + 1

ShouldRetry(retries) == retries <= max_retries

\* get_workflow_status: the snapshot of one execution record
get_workflow_status(execution_id) ==
    IF execution_id \notin DOMAIN workflows THEN None
    ELSE LET w == workflows[execution_id] IN
         [ execution_id  |-> w.execution_id,
           workflow_id   |-> w.workflow_id,
           status        |-> w.status,
           start_time    |-> w.start_time,
           end_time      |-> w.end_time,
           current_agent |-> None,
           progress      |-> w.progress,
           error_message |-> w.error_message,
           metadata      |-> w.metadata ]

\* ------------------------------------- agent_communication.py : the hub
AgentIds == 1..MaxAgents
Names == {"Research Agent", "Writer Agent"}

AgentMessage(id, sender_id, recipient_id, expires_at) ==
    [ id           |-> id,
      sender_id    |-> sender_id,
      recipient_id |-> recipient_id,
      expires_at   |-> expires_at ]

\* One key of the three dictionaries agents, message_queues and
\* message_handlers, which are filled and emptied together: the slot keeps
\* its place in insertion order, a deleted key leaves its slot behind (live
\* is FALSE) and the queue and handler list stay reachable for the
\* coroutines that already hold them.  sent, drained, returned, handled,
\* raised and delivered record what happened to the messages of the mailbox.
Entry(agent_id, agent_name, handler) ==
    [ agent_id      |-> agent_id,
      live          |-> TRUE,
      name          |-> agent_name,
      queue         |-> <<>>,
      handlers      |-> IF handler THEN 1 ELSE 0,
      sent          |-> <<>>,
      drained       |-> <<>>,
      returned      |-> <<>>,
      handled       |-> <<>>,
      raised        |-> {},
      delivered     |-> <<>> ]

Slots(es) == 1..Len(es)
Live(es) == {i \in Slots(es) : es[i].live}
Registered(es, a) == \E i \in Live(es) : es[i].agent_id = a
Lookup(es, a) == CHOOSE i \in Live(es) : es[i].agent_id = a

Expired_never(m, now) == FALSE

\* send_message: message.expires_at and datetime.utcnow() > message.expires_at
Expired(m, now) == m.expires_at # NoTime /\ now > m.expires_at

QueuePut_front(q, m) == <<m>> \o q

\* asyncio.Queue.put on an unbounded queue
QueuePut(q, m) == Append(q, m)

QueueGet_peek(q) == q

\* what asyncio.Queue.get leaves in the queue
QueueGet(q) == Tail(q)

Ids(ms) == [i \in 1..Len(ms) |-> ms[i].id]

CanAccept(es, m) == Registered(es, m.recipient_id) /\ ~Expired(m, clock)

Enqueue(es, m) ==
    LET i == Lookup(es, m.recipient_id) IN
    [es EXCEPT ![i].queue = QueuePut(@, m), ![i].sent = Append(@, m.id)]

NoReturn == [op |-> None, value |-> None]
Return(op, value) == [op |-> op, value |-> value]

register_agent_overwrite(a, agent_name, handler, limit) ==
    /\ Len(entries) < limit
    /\ entries' = Append([i \in Slots(entries) |->
                             IF entries[i].agent_id = a
                             THEN [entries[i] EXCEPT !.live = FALSE]
                             ELSE entries[i]],
                         Entry(a, agent_name, handler))
    /\ ret' = Return("register_agent", TRUE)
    /\ UNCHANGED <<running, loops, getter, nextId>>
    /\ UNCHANGED <<clock, status, workflows, tasks, sm, calls, memvars, agentvars, persistvars, coord>>

register_agent(a, agent_name, handler, limit) ==
    /\ IF Registered(entries, a)
       THEN /\ ret' = Return("register_agent", FALSE)
            /\ UNCHANGED entries
       ELSE /\ Len(entries) < limit
            /\ entries' = Append(entries, Entry(a, agent_name, handler))
            /\ ret' = Return("register_agent", TRUE)
    /\ UNCHANGED <<running, loops, getter, nextId>>
    /\ UNCHANGED <<clock, status, workflows, tasks, sm, calls, memvars, agentvars, persistvars, coord>>

unregister_agent(a) ==
    /\ IF Registered(entries, a)
       THEN /\ entries' = [entries EXCEPT ![Lookup(entries, a)].live = FALSE]
            /\ ret' = Return("unregister_agent", TRUE)
       ELSE /\ ret' = Return("unregister_agent", FALSE)
            /\ UNCHANGED entries
    /\ UNCHANGED <<running, loops, getter, nextId>>
    /\ UNCHANGED <<clock, status, workflows, tasks, sm, calls, memvars, agentvars, persistvars, coord>>

add_message_handler(a) ==
    /\ Registered(entries, a)
    /\ entries[Lookup(entries, a)].handlers < MaxHandlers
    /\ entries' = [entries EXCEPT ![Lookup(entries, a)].handlers = @ + 1]
    /\ UNCHANGED <<running, loops, getter, nextId, ret>>
    /\ UNCHANGED <<clock, status, workflows, tasks, sm, calls, memvars, agentvars, persistvars, coord>>

\* a caller builds a message (its id is a fresh uuid4) and sends it
send_message(sender, recipient, expires_at, limit) ==
    LET m == AgentMessage(nextId, sender, recipient, expires_at) IN
    /\ nextId <= limit
    /\ nextId' = nextId + 1
    /\ IF CanAccept(entries, m)
       THEN /\ entries' = Enqueue(entries, m)
            /\ ret' = Return("send_message", TRUE)
       ELSE /\ ret' = Return("send_message", FALSE)
            /\ UNCHANGED entries
    /\ UNCHANGED <<running, loops, getter>>
    /\ UNCHANGED <<clock, status, workflows, tasks, sm, calls, memvars, agentvars, persistvars, coord>>

\* broadcast_message: the slots of the agents the loop over self.agents
\* sends a copy to, in dictionary order
Targets(es, sender, exclude_sender) ==
    SelectSeq([i \in Slots(es) |-> i],
              LAMBDA i : es[i].live
                         /\ ~(exclude_sender /\ es[i].agent_id = sender))

BroadcastCopy_sameId(m, id, agent_id) ==
    AgentMessage(m.id, m.sender_id, agent_id, m.expires_at)

BroadcastCopy(m, id, agent_id) ==
    AgentMessage(id, m.sender_id, agent_id, m.expires_at)

RECURSIVE BroadcastLoop(_, _, _, _, _)
BroadcastLoop(es, ts, m, id, sent_count) ==
    IF ts = <<>> THEN [entries |-> es, sent_count |-> sent_count]
    ELSE LET cp == BroadcastCopy(m, id, es[Head(ts)].agent_id) IN
         IF CanAccept(es, cp)
         THEN BroadcastLoop(Enqueue(es, cp), Tail(ts), m, id + 1, sent_count + 1)
         ELSE BroadcastLoop(es, Tail(ts), m, id + 1, sent_count)

broadcast_message(sender, exclude_sender, expires_at, limit) ==
    LET m  == AgentMessage(nextId, sender, 0, expires_at)
        ts == Targets(entries, sender, exclude_sender)
        r  == BroadcastLoop(entries, ts, m, nextId + 1, 0) IN
    /\ nextId + Len(ts) <= limit
    /\ nextId' = nextId + 1 + Len(ts)
    /\ entries' = r.entries
    /\ ret' = Return("broadcast_message", r.sent_count)
    /\ UNCHANGED <<running, loops, getter>>
    /\ UNCHANGED <<clock, status, workflows, tasks, sm, calls, memvars, agentvars, persistvars, coord>>

\* ----------------------------------------------------------- get_messages
\* A call of get_messages is at "get" inside asyncio.wait_for(queue.get())
\* and at "check" about to evaluate `while not queue.empty()`.
Idle == [pc |-> "idle", e |-> 0, msgs |-> <<>>]

GetterReturn(es, g) ==
    [es EXCEPT ![g.e].returned = @ \o Ids(g.msgs)]

\* an outside caller enters get_messages(a)
get_messages(a) ==
    /\ getter.pc = "idle"
    /\ IF ~Registered(entries, a) \/ entries[Lookup(entries, a)].queue = <<>>
       THEN /\ ret' = Return("get_messages", <<>>)
            /\ UNCHANGED getter
       ELSE /\ getter' = [pc |-> "get", e |-> Lookup(entries, a), msgs |-> <<>>]
            /\ UNCHANGED ret
    /\ UNCHANGED <<entries, running, loops, nextId>>
    /\ UNCHANGED <<clock, status, workflows, tasks, sm, calls, memvars, agentvars, persistvars, coord>>

\* queue.get() completes, or the timeout passes on an empty queue
GetterGet ==
    /\ getter.pc = "get"
    /\ IF entries[getter.e].queue # <<>>
       THEN /\ getter' = [getter EXCEPT !.pc = "check",
                              !.msgs = Append(@, Head(entries[getter.e].queue))]
            /\ entries' = [entries EXCEPT
                             ![getter.e].queue = QueueGet(@),
                             ![getter.e].drained =
                                 Append(@, Head(entries[getter.e].queue).id)]
            /\ UNCHANGED ret
       ELSE /\ getter' = Idle
            /\ entries' = GetterReturn(entries, getter)
            /\ ret' = Return("get_messages", Ids(getter.msgs))
    /\ UNCHANGED <<running, loops, nextId>>
    /\ UNCHANGED <<clock, status, workflows, tasks, sm, calls, memvars, agentvars, persistvars, coord>>

GetterCheck ==
    /\ getter.pc = "check"
    /\ IF entries[getter.e].queue # <<>>
       THEN /\ getter' = [getter EXCEPT !.pc = "get"]
            /\ UNCHANGED <<entries, ret>>
       ELSE /\ getter' = Idle
            /\ entries' = GetterReturn(entries, getter)
            /\ ret' = Return("get_messages", Ids(getter.msgs))
    /\ UNCHANGED <<running, loops, nextId>>
    /\ UNCHANGED <<clock, status, workflows, tasks, sm, calls, memvars, agentvars, persistvars, coord>>

\* ------------------------------------------------------ start, stop, loop
Processor ==
    [pc |-> "top", pos |-> 0, len |-> 0, used |-> 0,
     e |-> 0, msgs |-> <<>>, mi |-> 0, hi |-> 0]

\* start(): the flag is set and a new _message_processor task is created
Started(limit) ==
    /\ Len(loops) < limit
    /\ running' = TRUE
    /\ loops' = Append(loops, Processor)

\* stop(): the flag is cleared
Stopped == running' = FALSE

hub_start(limit) ==
    /\ Started(limit)
    /\ UNCHANGED <<entries, getter, nextId, ret>>
    /\ UNCHANGED <<clock, status, workflows, tasks, sm, calls, memvars, agentvars, persistvars, coord>>

hub_stop ==
    /\ Stopped
    /\ UNCHANGED <<entries, loops, getter, nextId, ret>>
    /\ UNCHANGED <<clock, status, workflows, tasks, sm, calls, memvars, agentvars, persistvars, coord>>

\* `for agent_id, handlers in self.message_handlers.items()` from the slot
\* after lp.pos, up to the first await: the dictionary iterator raises
\* RuntimeError when the size changed, skips deleted slots, and raises
\* when it finds a key after it gave out as many as the dictionary had; an
\* agent without handlers or with an empty mailbox is passed over without a
\* suspension.  The pass ends (at "top") by the sleep after the loop or by
\* the except branch.
RECURSIVE ForNext(_, _)
ForNext_dies(es, lp) ==
    LET rest == {i \in Live(es) : i > lp.pos} IN
    IF Cardinality(Live(es)) # lp.used \/ (rest # {} /\ lp.len = 0)
    THEN [Processor EXCEPT !.pc = "exited"]
    ELSE IF rest = {} THEN Processor
    ELSE LET i  == CHOOSE j \in rest : \A k \in rest : j <= k
             l2 == [lp EXCEPT !.pos = i, !.len = @ - 1, !.e = i] IN
         IF es[i].handlers = 0 \/ es[i].queue = <<>>
         THEN ForNext(es, l2)
         ELSE [l2 EXCEPT !.pc = "get", !.msgs = <<>>, !.mi = 0, !.hi = 0]

ForNext_noHandlerTest(es, lp) ==
    LET rest == {i \in Live(es) : i > lp.pos} IN
    IF Cardinality(Live(es)) # lp.used \/ rest = {} \/ lp.len = 0
    THEN Processor
    ELSE LET i  == CHOOSE j \in rest : \A k \in rest : j <= k
             l2 == [lp EXCEPT !.pos = i, !.len = @ - 1, !.e = i] IN
         IF es[i].queue = <<>>
         THEN ForNext(es, l2)
         ELSE [l2 EXCEPT !.pc = "get", !.msgs = <<>>, !.mi = 0, !.hi = 0]

ForNext(es, lp) ==
    LET rest == {i \in Live(es) : i > lp.pos} IN
    IF Cardinality(Live(es)) # lp.used \/ rest = {} \/ lp.len = 0
    THEN Processor
    ELSE LET i  == CHOOSE j \in rest : \A k \in rest : j <= k
             l2 == [lp EXCEPT !.pos = i, !.len = @ - 1, !.e = i] IN
         IF es[i].handlers = 0 \/ es[i].queue = <<>>
         THEN ForNext(es, l2)
         ELSE [l2 EXCEPT !.pc = "get", !.msgs = <<>>, !.mi = 0, !.hi = 0]

\* get_messages has returned lp.msgs to the loop
ProcessorGot(es, lp) ==
    IF lp.msgs = <<>> THEN ForNext(es, lp)
    ELSE [lp EXCEPT !.pc = "dispatch", !.mi = 1, !.hi = 1]

ProcessorTop_always(l) ==
    /\ l \in 1..Len(loops)
    /\ loops[l].pc = "top"
    /\ loops' = [loops EXCEPT ![l] =
                    ForNext(entries,
                            [Processor EXCEPT !.len = Cardinality(Live(entries)),
                                              !.used = Cardinality(Live(entries))])]
    /\ UNCHANGED <<entries, running, getter, nextId, ret>>
    /\ UNCHANGED <<clock, status, workflows, tasks, sm, calls, memvars, agentvars, persistvars, coord>>

\* `while self.running:` and the start of a pass
ProcessorTop(l) ==
    /\ l \in 1..Len(loops)
    /\ loops[l].pc = "top"
    /\ loops' = [loops EXCEPT ![l] =
                    IF ~running THEN [Processor EXCEPT !.pc = "exited"]
                    ELSE ForNext(entries,
                                 [Processor EXCEPT !.len = Cardinality(Live(entries)),
                                                   !.used = Cardinality(Live(entries))])]
    /\ UNCHANGED <<entries, running, getter, nextId, ret>>
    /\ UNCHANGED <<clock, status, workflows, tasks, sm, calls, memvars, agentvars, persistvars, coord>>

ProcessorGet(l) ==
    /\ l \in 1..Len(loops)
    /\ loops[l].pc = "get"
    /\ LET lp == loops[l] IN
       IF entries[lp.e].queue # <<>>
       THEN /\ loops' = [loops EXCEPT ![l] =
                            [lp EXCEPT !.pc = "check",
                                       !.msgs = Append(@, Head(entries[lp.e].queue))]]
            /\ entries' = [entries EXCEPT
                             ![lp.e].queue = QueueGet(@),
                             ![lp.e].drained = Append(@, Head(entries[lp.e].queue).id)]
       ELSE /\ loops' = [loops EXCEPT ![l] = ProcessorGot(entries, lp)]
            /\ UNCHANGED entries
    /\ UNCHANGED <<running, getter, nextId, ret>>
    /\ UNCHANGED <<clock, status, workflows, tasks, sm, calls, memvars, agentvars, persistvars, coord>>

ProcessorCheck(l) ==
    /\ l \in 1..Len(loops)
    /\ loops[l].pc = "check"
    /\ LET lp == loops[l] IN
       loops' = [loops EXCEPT ![l] =
                    IF entries[lp.e].queue # <<>>
                    THEN [lp EXCEPT !.pc = "get"]
                    ELSE ProcessorGot(entries, lp)]
    /\ UNCHANGED <<entries, running, getter, nextId, ret>>
    /\ UNCHANGED <<clock, status, workflows, tasks, sm, calls, memvars, agentvars, persistvars, coord>>

Dispatched_abort(lp, es, raises) ==
    IF raises THEN Processor
    ELSE IF lp.hi < es[lp.e].handlers THEN [lp EXCEPT !.hi = @ + 1]
    ELSE IF lp.mi < Len(lp.msgs) THEN [lp EXCEPT !.mi = @ + 1, !.hi = 1]
    ELSE ForNext(es, lp)

\* where the loop stands after handler lp.hi was called with message lp.mi
Dispatched(lp, es, raises) ==
    IF lp.hi < es[lp.e].handlers THEN [lp EXCEPT !.hi = @ + 1]
    ELSE IF lp.mi < Len(lp.msgs) THEN [lp EXCEPT !.mi = @ + 1, !.hi = 1]
    ELSE ForNext(es, lp)

\* one handler is called with one message and returns or raises
ProcessorDispatch(l, raises) ==
    /\ l \in 1..Len(loops)
    /\ loops[l].pc = "dispatch"
    /\ LET lp   == loops[l]
           m    == lp.msgs[lp.mi]
           nx   == Dispatched(lp, entries, raises)
           last == lp.hi >= entries[lp.e].handlers IN
       /\ entries' = [entries EXCEPT
                        ![lp.e].handled =
                            Append(@, [h |-> lp.hi, m |-> m.id]),
                        ![lp.e].raised = IF raises THEN @ \cup {m.id} ELSE @,
                        ![lp.e].delivered =
                            IF last THEN Append(@, m.id) ELSE @]
       /\ loops' = [loops EXCEPT ![l] = nx]
    /\ UNCHANGED <<running, getter, nextId, ret>>
    /\ UNCHANGED <<clock, status, workflows, tasks, sm, calls, memvars, agentvars, persistvars, coord>>

\* ------------------------------------------------------ memory_manager.py
\* texts are sequences of characters
Contents == { <<"S", "u", "n">>, <<"s", "u", "n", "s", "e", "t">> }

\* the texts callers search for
Queries == { <<>>, <<"s", "u", "n">>, <<"S", "E", "T">> }

\* hashlib.sha256(content.encode()).hexdigest(), as a number per content
\* _generate_content_hash
generate_content_hash(content) ==
    CASE content = <<"S", "u", "n">>                -> 7301
      [] content = <<"s", "u", "n", "s", "e", "t">> -> 1946

EmptyDict == [x \in {} |-> None]

\* the arguments a caller passes next to the content; importance_score in
\* hundredths
StoreArgs ==
    { [memory_type |-> "general",  importance_score |-> 50,
       metadata |-> EmptyDict,      agent_id |-> None],
      [memory_type |-> "research", importance_score |-> 90,
       metadata |-> [source |-> "web"], agent_id |-> "researcher"] }

\* datetime.isoformat() and datetime.fromisoformat(): a time in seconds as
\* its text and back; a text that is no ISO date does not parse
isoformat(t) == <<"iso", t>>
IsIsoformat(text) == Len(text) = 2 /\ text[1] = "iso"
fromisoformat(text) == text[2]

\* vectors have Dimensions components (1536 in the program), each kept in
\* tenths; a digest has DigestSize bytes (16 in the program)
Dimensions == 4
DigestSize == 2

\* hashlib.md5(text.encode()).digest()
md5(text) ==
    CASE text = <<"S", "u", "n">>                -> <<204, 51>>
      [] text = <<"s", "u", "n", "s", "e", "t">> -> <<25, 230>>
      [] text = <<"s", "u", "n">>                -> <<128, 140>>
      [] text = <<"S", "E", "T">>                -> <<77, 255>>
      [] text = <<>>                             -> <<212, 29>>

\* the fallback vector: vector[i] = float(hash_bytes[i % 16]) / 255.0
HashVector(text) ==
    [i \in 1..Dimensions |->
        (10 * md5(text)[((i - 1) % DigestSize) + 1]) \div 255]

\* response.data[0].embedding of the provider
ProviderVector(text) ==
    CASE text = <<"S", "u", "n">>                -> <<6, 8, 0, 0>>
      [] text = <<"s", "u", "n", "s", "e", "t">> -> <<8, -6, 0, 0>>
      [] text = <<"s", "u", "n">>                -> <<3, 4, 0, 0>>
      [] text = <<"S", "E", "T">>                -> <<-8, 6, 0, -1>>
      [] text = <<>>                             -> <<0, 0, 0, 10>>

ZeroVector == [i \in 1..Dimensions |-> 0]

\* an exception that leaves _generate_embedding instead of a vector
Raised == <<"raised">>

generate_embedding_propagates(text, client, raises) ==
    IF ~client THEN HashVector(text)
    ELSE IF raises THEN Raised
    ELSE ProviderVector(text)

\* _generate_embedding: the vector of the provider, the vector derived from
\* the md5 digest when there is no client, zeros when the provider raised
generate_embedding(text, client, raises) ==
    IF ~client THEN HashVector(text)
    ELSE IF raises THEN ZeroVector
    ELSE ProviderVector(text)

Exists_never(content_hash) == FALSE

\* `if content_hash in self.memories`
Exists(content_hash) == content_hash \in DOMAIN memories

StoreKey_perCall(content_hash, c) == 10 * content_hash + c

\* the key of self.memories[content_hash] = memory
StoreKey(content_hash, c) == content_hash

StoreCall(content, args) ==
    [ content |-> content, args |-> args, pc |-> "embedding",
      committed |-> FALSE, result |-> None ]

\* a call of the manager, its arguments and what it gave its caller: a
\* value, never an exception (every method catches Exception and returns
\* its default)
NoAnswer == [op |-> None, args |-> <<>>, value |-> None]
Answer(op, args, value) == [op |-> op, args |-> args, value |-> value]

\* d[k] = v on a dict in insertion order: a new key goes last
PutKey(keys, k) ==
    IF \E i \in 1..Len(keys) : keys[i] = k THEN keys ELSE Append(keys, k)

\* del d[k]
DelKey(keys, k) == SelectSeq(keys, LAMBDA x : x # k)
Del_all(d, k) == [x \in {} |-> None]
Del(d, k) == [x \in DOMAIN d \ {k} |-> d[x]]

\* MemoryManager(openai_api_key): a manager is built with or without a client
MemoryManager(client) ==
    /\ stores = <<>>
    /\ DOMAIN memories = {}
    /\ openai_client # client
    /\ openai_client' = client
    /\ UNCHANGED <<memories, embeddings, stores, order, answer>>
    /\ UNCHANGED <<clock, status, workflows, tasks, sm, calls, hubvars, agentvars, persistvars, coord>>

\* store_memory up to the await of _generate_embedding
store_memory(content, args) ==
    LET content_hash == generate_content_hash(content) IN
    /\ Len(stores) < MaxStores
    /\ stores' = Append(stores,
                    IF Exists(content_hash)
                    THEN [StoreCall(content, args) EXCEPT
                              !.pc = "done", !.result = content_hash]
                    ELSE StoreCall(content, args))
    /\ UNCHANGED <<memories, embeddings, openai_client, order, answer>>
    /\ UNCHANGED <<clock, status, workflows, tasks, sm, calls, hubvars, agentvars, persistvars, coord>>

\* store_memory from the embedding to the return; an exception on the way
\* is caught and answered with ""
StoreCommit(c, raises) ==
    /\ c \in 1..Len(stores)
    /\ stores[c].pc = "embedding"
    /\ LET s            == stores[c]
           content_hash == generate_content_hash(s.content)
           key          == StoreKey(content_hash, c)
           embedding    == generate_embedding(s.content, openai_client, raises)
           memory       == [ id               |-> content_hash,
                             content          |-> s.content,
                             memory_type      |-> s.args.memory_type,
                             importance_score |-> s.args.importance_score,
                             metadata         |-> s.args.metadata,
                             agent_id         |-> s.args.agent_id,
                             created_at       |-> isoformat(clock),
                             embedding        |-> embedding ] IN
       IF embedding = Raised
       THEN /\ stores' = [stores EXCEPT ![c] =
                             [s EXCEPT !.pc = "done", !.result = ""]]
            /\ UNCHANGED <<memories, embeddings, order>>
       ELSE /\ memories' = Put(memories, key, memory)
            /\ embeddings' = Put(embeddings, key, embedding)
            /\ order' = PutKey(order, key)
            /\ stores' = [stores EXCEPT ![c] =
                             [s EXCEPT !.pc = "done", !.committed = TRUE,
                                       !.result = content_hash]]
    /\ UNCHANGED <<openai_client, answer>>
    /\ UNCHANGED <<clock, status, workflows, tasks, sm, calls, hubvars, agentvars, persistvars, coord>>

\* ------------------------------------------- update_memory, delete_memory
\* the dicts callers pass to update_memory
Updates ==
    { [content |-> c] : c \in Contents }
    \cup { [importance_score |-> 70],
           [id |-> 4242, memory_type |-> "note"],
           [priority |-> 1] }

\* the ids callers pass: the hash of a content or an id nothing has
MemoryIds == {generate_content_hash(c) : c \in Contents} \cup {4242}

\* `if key in self.memories[memory_id] and key != "id"`
Updatable(memory, key) == key \in DOMAIN memory /\ key # "id"

\* the entry after the loop over updates.items() and the new updated_at
Updated(memory, updates, now) ==
    [ key \in DOMAIN memory \cup {"updated_at"} |->
        IF key = "updated_at" THEN isoformat(now)
        ELSE IF key \in DOMAIN updates /\ Updatable(memory, key)
             THEN updates[key]
             ELSE memory[key] ]

\* update_memory
update_memory(memory_id, updates) ==
    /\ IF memory_id \notin DOMAIN memories
       THEN /\ answer' = Answer("update_memory", <<memory_id, updates>>, FALSE)
            /\ UNCHANGED memories
       ELSE /\ memories' = [memories EXCEPT ![memory_id] =
                               Updated(memories[memory_id], updates, clock)]
            /\ answer' = Answer("update_memory", <<memory_id, updates>>, TRUE)
    /\ UNCHANGED <<openai_client, embeddings, stores, order>>
    /\ UNCHANGED <<clock, status, workflows, tasks, sm, calls, hubvars, agentvars, persistvars, coord>>

\* delete_memory
delete_memory(memory_id) ==
    /\ IF memory_id \in DOMAIN memories
       THEN /\ memories' = Del(memories, memory_id)
            /\ order' = DelKey(order, memory_id)
            /\ embeddings' = IF memory_id \in DOMAIN embeddings
                             THEN Del(embeddings, memory_id)
                             ELSE embeddings
            /\ answer' = Answer("delete_memory", <<memory_id>>, TRUE)
       ELSE /\ answer' = Answer("delete_memory", <<memory_id>>, FALSE)
            /\ UNCHANGED <<memories, embeddings, order>>
    /\ UNCHANGED <<openai_client, stores>>
    /\ UNCHANGED <<clock, status, workflows, tasks, sm, calls, hubvars, agentvars, persistvars, coord>>

\* ------------------------------------------------------------- retrieval
\* str.lower()
lower(text) ==
    LET LowerChar(ch) == CASE ch = "S" -> "s"
                           [] ch = "E" -> "e"
                           [] ch = "T" -> "t"
                           [] OTHER    -> ch IN
    [i \in 1..Len(text) |-> LowerChar(text[i])]

\* `needle in text` on strings
Contains(text, needle) ==
    \E i \in 0..(Len(text) - Len(needle)) :
        \A j \in 1..Len(needle) : text[i + j] = needle[j]

\* self.memories.items(): the entries in insertion order
Items == [i \in 1..Len(order) |-> memories[order[i]]]

\* list.sort(key=..., reverse=True) on <<key, item>> pairs: descending and
\* stable, a pair goes behind the pairs before it that are not smaller
RECURSIVE SortDescending(_)
SortDescending_unsorted(pairs) == pairs

SortDescending(pairs) ==
    IF pairs = <<>> THEN <<>>
    ELSE LET sorted == SortDescending(SubSeq(pairs, 1, Len(pairs) - 1))
             p == pairs[Len(pairs)]
             n == Cardinality({i \in 1..Len(sorted) : sorted[i][1] >= p[1]})
         IN SubSeq(sorted, 1, n) \o <<p>> \o SubSeq(sorted, n + 1, Len(sorted))

\* list[:limit]
Slice(list, limit) ==
    IF limit >= 0
    THEN SubSeq(list, 1, IF limit < Len(list) THEN limit ELSE Len(list))
    ELSE SubSeq(list, 1, IF Len(list) + limit > 0 THEN Len(list) + limit ELSE 0)

\* the limits and, in hundredths, the thresholds callers pass
Limits == 0..2
Thresholds == {-100, 70, 110}
MemoryTypes == {"general", "research"}

\* the filters callers pass to retrieve_memories; EmptyDict is no filter
Filters ==
    { EmptyDict,
      [min_importance |-> 60],
      [max_importance |-> 60],
      [date_from |-> isoformat(1)],
      [date_to |-> isoformat(0), min_importance |-> 40],
      [date_from |-> <<"yesterday">>],
      [metadata_filters |-> [source |-> "web"]],
      [agent_id |-> "researcher"] }

\* one item of filters.items() in _apply_filters; an exception in it makes
\* _apply_filters answer False
FilterHolds(memory, key, value) ==
    CASE key = "min_importance" -> ~(memory.importance_score < value)
      [] key = "max_importance" -> ~(memory.importance_score > value)
      [] key = "date_from" ->
            /\ IsIsoformat(memory.created_at) /\ IsIsoformat(value)
            /\ ~(fromisoformat(memory.created_at) < fromisoformat(value))
      [] key = "date_to" ->
            /\ IsIsoformat(memory.created_at) /\ IsIsoformat(value)
            /\ ~(fromisoformat(memory.created_at) > fromisoformat(value))
      [] key = "metadata_filters" ->
            \A meta_key \in DOMAIN value :
                ~(\/ meta_key \notin DOMAIN memory.metadata
                  \/ memory.metadata[meta_key] # value[meta_key])
      [] OTHER -> ~(key \in DOMAIN memory /\ memory[key] # value)

\* _apply_filters
apply_filters(memory, filters) ==
    \A key \in DOMAIN filters : FilterHolds(memory, key, filters[key])

\* the three tests of the loop of retrieve_memories
Selected(memory, query, memory_type, filters) ==
    /\ ~(memory_type # "general" /\ memory.memory_type # memory_type)
    /\ ~(query # <<>> /\ ~Contains(lower(memory.content), lower(query)))
    /\ ~(filters # EmptyDict /\ ~apply_filters(memory, filters))

\* retrieve_memories; each list of the method is bound once it is built
retrieve_memories(query, memory_type, limit, filters) ==
    /\ \E memories_list \in {SelectSeq(Items,
              LAMBDA m : Selected(m, query, memory_type, filters))} :
       \E sorted \in {SortDescending([i \in 1..Len(memories_list) |->
              <<memories_list[i].importance_score, memories_list[i]>>])} :
          answer' = Answer("retrieve_memories",
                        <<query, memory_type, limit, filters>>,
                        Slice([i \in 1..Len(sorted) |-> sorted[i][2]], limit))
    /\ UNCHANGED <<openai_client, memories, embeddings, stores, order>>
    /\ UNCHANGED <<clock, status, workflows, tasks, sm, calls, hubvars, agentvars, persistvars, coord>>

\* integer square root, rounded down
RECURSIVE Sqrt(_, _, _)
Sqrt(x, lo, hi) ==
    IF lo >= hi THEN lo
    ELSE LET mid == (lo + hi + 1) \div 2 IN
         IF mid * mid <= x THEN Sqrt(x, mid, hi) ELSE Sqrt(x, lo, mid - 1)

Dot(vec1, vec2) ==
    LET RECURSIVE Sum(_)
        Sum(i) == IF i = 0 THEN 0 ELSE vec1[i] * vec2[i] + Sum(i - 1) IN
    Sum(Len(vec1))

\* np.linalg.norm of a vector in tenths, in thousandths
Norm(vec) == Sqrt(10000 * Dot(vec, vec), 0, 100 * 10 * Dimensions)

cosine_similarity_unnormalised(vec1, vec2) ==
    IF Len(vec1) # Len(vec2) THEN 0 ELSE Dot(vec1, vec2)

\* _cosine_similarity in hundredths; an exception (vectors of different
\* lengths) is answered with 0.0
cosine_similarity(vec1, vec2) ==
    IF Len(vec1) # Len(vec2) THEN 0
    ELSE LET norm1 == Norm(vec1)
             norm2 == Norm(vec2) IN
         IF norm1 = 0 \/ norm2 = 0 THEN 0
         ELSE (100 * 10000 * Dot(vec1, vec2)) \div (norm1 * norm2)

\* the loop of retrieve_similar_memories: an item per entry that passes
Similarities(query_embedding, memory_type, similarity_threshold) ==
    LET all == [i \in 1..Len(order) |->
                  [ memory_id  |-> order[i],
                    similarity |-> cosine_similarity(query_embedding,
                                        memories[order[i]].embedding),
                    memory     |-> memories[order[i]] ]] IN
    SelectSeq(all, LAMBDA item :
        /\ ~(memory_type # None /\ item.memory.memory_type # memory_type)
        /\ item.similarity >= similarity_threshold)

\* {**item["memory"], "similarity_score": item["similarity"]}
WithScore(item) ==
    [ key \in DOMAIN item.memory \cup {"similarity_score"} |->
        IF key = "similarity_score" THEN item.similarity
        ELSE item.memory[key] ]

\* retrieve_similar_memories; thresholds in hundredths
retrieve_similar_memories(query, memory_type, limit, similarity_threshold, raises) ==
    /\ \E query_embedding \in {generate_embedding(query, openai_client, raises)} :
       \E similarities \in {Similarities(query_embedding, memory_type,
                                          similarity_threshold)} :
       \E sorted \in {SortDescending([i \in 1..Len(similarities) |->
                          <<similarities[i].similarity, similarities[i]>>])} :
       \E top \in {Slice([i \in 1..Len(sorted) |-> sorted[i][2]], limit)} :
          answer' = Answer("retrieve_similar_memories",
                    <<query, memory_type, limit, similarity_threshold>>,
                    IF order = <<>> \/ query_embedding = Raised THEN <<>>
                    ELSE [i \in 1..Len(top) |-> WithScore(top[i])])
    /\ UNCHANGED <<openai_client, memories, embeddings, stores, order>>
    /\ UNCHANGED <<clock, status, workflows, tasks, sm, calls, hubvars, agentvars, persistvars, coord>>

\* ----------------------------------------------------------- base_agent.py
\* AgentState(agent_id) as its dataclass builds it at time now;
\* task_progress in hundredths
AgentState(agent_id, now) ==
    [ agent_id      |-> agent_id,
      status        |-> "idle",
      current_task  |-> None,
      task_progress |-> 0,
      last_activity |-> now,
      error_message |-> <<>> ]

\* BaseAgent.__init__ of the agent "researcher-1"
BaseAgent(now) ==
    [ agent_id   |-> "researcher-1",
      agent_type |-> "researcher",
      name       |-> "Research Agent",
      status     |-> "idle",
      memories   |-> <<>>,
      state      |-> AgentState("researcher-1", now) ]

\* the task descriptions, results, progress values, exceptions and contexts
\* callers pass; a text is a sequence of words, <<>> is None
Descriptions == {"Researching: solar"}
TaskResults == {None, "summary"}
Progresses == {-50, 40, 100, 250}
Exceptions == { <<"timeout">>, <<"Invalid", "API key">> }
Contexts == { <<>>, <<"research execution">> }

\* BaseAgent.store_memory: the import of get_db_session fails, the method
\* catches it and returns ""; what is left of the call is that it was made
MemoryRequest(content, memory_type, importance_score) ==
    [ content |-> content, memory_type |-> memory_type,
      importance_score |-> importance_score ]

\* start_task
Started_task(a, task_description, now) ==
    [a EXCEPT !.status = "busy",
              !.state = [a.state EXCEPT !.status = "busy",
                                        !.current_task = task_description,
                                        !.task_progress = 0,
                                        !.last_activity = now]]

Clamp_upperOnly(progress) == IF progress > 100 THEN 100 ELSE progress

\* max(0.0, min(1.0, progress))
Clamp(progress) ==
    LET least == IF progress < 100 THEN progress ELSE 100 IN
    IF least > 0 THEN least ELSE 0

\* complete_task up to the memory of the result
Completed(a, now) ==
    [a EXCEPT !.status = "completed",
              !.state = [a.state EXCEPT !.status = "completed",
                                        !.task_progress = 100,
                                        !.last_activity = now]]

\* f"Error in {context or 'execution'}: {str(error)}"
ErrorMsg(error, context) ==
    <<"Error in">> \o (IF context = <<>> THEN <<"execution">> ELSE context)
                   \o <<":">> \o error

Failed_topOnly(a, error, context, now) ==
    [a EXCEPT !.status = "error",
              !.state = [a.state EXCEPT !.last_activity = now]]

\* handle_error up to the memory of the error
Failed(a, error, context, now) ==
    [a EXCEPT !.status = "error",
              !.state = [a.state EXCEPT !.status = "error",
                                        !.error_message = ErrorMsg(error, context),
                                        !.last_activity = now]]

start_task(task_description) ==
    /\ agent' = Started_task(agent, task_description, clock)
    /\ UNCHANGED <<requested, exec>>
    /\ UNCHANGED <<clock, status, workflows, tasks, sm, calls, hubvars, memvars, persistvars, coord>>

update_progress(progress) ==
    /\ agent' = [agent EXCEPT !.state.task_progress = Clamp(progress)]
    /\ UNCHANGED <<requested, exec>>
    /\ UNCHANGED <<clock, status, workflows, tasks, sm, calls, hubvars, memvars, persistvars, coord>>

complete_task(result) ==
    /\ result # None => Len(requested) < MaxRequests
    /\ agent' = Completed(agent, clock)
    /\ requested' = IF result # None
                    THEN Append(requested,
                                MemoryRequest(<<result>>, "task_result", 80))
                    ELSE requested
    /\ UNCHANGED exec
    /\ UNCHANGED <<clock, status, workflows, tasks, sm, calls, hubvars, memvars, persistvars, coord>>

handle_error(error, context) ==
    /\ Len(requested) < MaxRequests
    /\ agent' = Failed(agent, error, context, clock)
    /\ requested' = Append(requested,
                       MemoryRequest(ErrorMsg(error, context), "error", 90))
    /\ UNCHANGED exec
    /\ UNCHANGED <<clock, status, workflows, tasks, sm, calls, hubvars, memvars, persistvars, coord>>

\* initialize() without configuration
initialize ==
    /\ agent' = [agent EXCEPT !.status = "idle", !.state.status = "idle"]
    /\ UNCHANGED <<requested, exec>>
    /\ UNCHANGED <<clock, status, workflows, tasks, sm, calls, hubvars, memvars, persistvars, coord>>

reset_forgets ==
    /\ agent' = [BaseAgent(clock) EXCEPT !.name = ""]
    /\ requested' = <<>>
    /\ UNCHANGED exec
    /\ UNCHANGED <<clock, status, workflows, tasks, sm, calls, hubvars, memvars, persistvars, coord>>

\* reset: self.status and a new AgentState(agent_id=self.agent_id)
reset ==
    /\ agent' = [agent EXCEPT !.status = "idle",
                              !.state = AgentState(agent.agent_id, clock)]
    /\ UNCHANGED <<requested, exec>>
    /\ UNCHANGED <<clock, status, workflows, tasks, sm, calls, hubvars, memvars, persistvars, coord>>

\* ----------------------------------------------------------------- execute
\* a call of execute: where it is, the retries so far, the calls of
\* _execute_impl it made, the exceptions of its failed attempts, and what it
\* gave its caller
NoExecute ==
    [ pc |-> "idle", n |-> 0, retries |-> 0, traced |-> FALSE, invoked |-> 0,
      errors |-> <<>>, delay |-> 0, result |-> None, raised |-> <<>> ]

\* `"API key" in str(trace_error) or "LangSmith" in str(trace_error)`
TracingUnavailable(error) ==
    \E i \in 1..Len(error) : error[i] \in {"API key", "LangSmith"}

\* 2 ** k
RECURSIVE Pow2(_)
Pow2(k) == IF k = 0 THEN 1 ELSE 2 * Pow2(k - 1)

MayRetry_never(retries) == FALSE

\* `if retries < max_retries`
MayRetry(retries) == retries < agent_max_retries

\* execute(context) up to the first pass of the loop
execute(limit) ==
    /\ exec.pc \in {"idle", "returned", "raised"}
    /\ exec.n < limit
    /\ exec' = [NoExecute EXCEPT !.pc = "trace", !.n = exec.n + 1]
    /\ UNCHANGED <<agent, requested>>
    /\ UNCHANGED <<clock, status, workflows, tasks, sm, calls, hubvars, memvars, persistvars, coord>>

ExecuteFail_lastUnrecorded(error) ==
    IF MayRetry(exec.retries)
    THEN /\ agent' = Failed(agent, error,
                        <<"execution attempt", ToString(exec.retries + 1)>>, clock)
         /\ requested' = Append(requested, MemoryRequest(ErrorMsg(error,
                        <<"execution attempt", ToString(exec.retries + 1)>>),
                        "error", 90))
         /\ exec' = [exec EXCEPT !.pc = "sleep",
                        !.errors = Append(exec.errors, error),
                        !.retries = exec.retries + 1,
                        !.delay = retry_delay_seconds * Pow2(exec.retries)]
    ELSE /\ UNCHANGED <<agent, requested>>
         /\ exec' = [exec EXCEPT !.pc = "raised",
                        !.errors = Append(exec.errors, error),
                        !.raised = error]

\* the handler `except Exception as e` of the loop: handle_error, then the
\* backoff or the re-raise
ExecuteFail(error) ==
    LET context == <<"execution attempt", ToString(exec.retries + 1)>> IN
    /\ agent' = Failed(agent, error, context, clock)
    /\ requested' = Append(requested,
                       MemoryRequest(ErrorMsg(error, context), "error", 90))
    /\ exec' = IF MayRetry(exec.retries)
               THEN [exec EXCEPT !.pc = "sleep",
                        !.errors = Append(exec.errors, error),
                        !.retries = exec.retries + 1,
                        !.delay = retry_delay_seconds * Pow2(exec.retries)]
               ELSE [exec EXCEPT !.pc = "raised",
                        !.errors = Append(exec.errors, error),
                        !.raised = error]

\* `while retries <= max_retries` and the entry of langsmith.trace: it is
\* entered, or raises; without tracing the implementation is called anyway
ExecuteTrace(enters, trace_error) ==
    /\ exec.pc = "trace"
    /\ exec.retries <= agent_max_retries
    /\ IF enters \/ TracingUnavailable(trace_error)
       THEN /\ exec' = [exec EXCEPT !.pc = "impl", !.traced = enters,
                                    !.invoked = exec.invoked + 1]
            /\ UNCHANGED <<agent, requested>>
       ELSE ExecuteFail(trace_error)
    /\ UNCHANGED <<clock, status, workflows, tasks, sm, calls, hubvars, memvars, persistvars, coord>>

\* _execute_impl returns: `return result`
ExecuteReturn(result) ==
    /\ exec.pc = "impl"
    /\ exec' = [exec EXCEPT !.pc = "returned", !.result = result]
    /\ UNCHANGED <<agent, requested>>
    /\ UNCHANGED <<clock, status, workflows, tasks, sm, calls, hubvars, memvars, persistvars, coord>>

\* _execute_impl raises: inside the trace the exception is taken for a
\* failure of tracing when it mentions the API key, and the implementation
\* is called again
ExecuteRaise(error) ==
    /\ exec.pc = "impl"
    /\ IF exec.traced /\ TracingUnavailable(error)
       THEN /\ exec' = [exec EXCEPT !.traced = FALSE,
                                    !.invoked = exec.invoked + 1]
            /\ UNCHANGED <<agent, requested>>
       ELSE ExecuteFail(error)
    /\ UNCHANGED <<clock, status, workflows, tasks, sm, calls, hubvars, memvars, persistvars, coord>>

\* asyncio.sleep(retry_delay_seconds * 2 ** (retries - 1)) is over
ExecuteSleep ==
    /\ exec.pc = "sleep"
    /\ exec' = [exec EXCEPT !.pc = "trace"]
    /\ UNCHANGED <<agent, requested>>
    /\ UNCHANGED <<clock, status, workflows, tasks, sm, calls, hubvars, memvars, persistvars, coord>>

\* ------------------------------------------------- workflow_persistence.py
\* the directories of storage_path, in the order load and update search them
Directories == <<"active", "completed", "failed", "archived">>

\* the workflow ids, statuses and state dicts callers pass; a value of a
\* state is a text or a datetime
PersistedIds == {"wf-1", "wf-2"}
Statuses == {"active", "completed", "failed", "archived", "running"}
States ==
    { [current_state |-> <<"research">>, created_at |-> <<"datetime", "0">>],
      [current_state |-> <<"complete">>, created_at |-> <<"datetime", "0">>] }

\* json.dump(..., default=str) followed by json.load: a datetime comes back
\* as the text str() made of it, a text as itself
IsDatetime(value) == Len(value) = 2 /\ value[1] = "datetime"
JsonValue(value) == IF IsDatetime(value) THEN <<"str", value[2]>> ELSE value
json_dump(data) ==
    <<"json", [data EXCEPT !.state =
                   [k \in DOMAIN data.state |-> JsonValue(data.state[k])]]>>
json_load(text) == text[2]

\* state_data of save_workflow_state
StateData(workflow_id, state, wf_status, now) ==
    [ workflow_id |-> workflow_id,
      status      |-> wf_status,
      saved_at    |-> isoformat(now),
      state       |-> state ]

\* `if status == "completed" ... else` : the directory a status is filed in
DirectoryOf(wf_status) ==
    IF wf_status \in {"completed", "failed", "archived"} THEN wf_status ELSE "active"

NoFiles == [d \in {"active", "completed", "failed", "archived"} |->
               [x \in {} |-> None]]

SaveCall(workflow_id, state, wf_status) ==
    [ workflow_id |-> workflow_id, state |-> state, status |-> wf_status ]

\* save_workflow_state: open(file_path, 'w') creates the file or replaces it
save_workflow_state(workflow_id, state, wf_status, limit) ==
    /\ Len(saves) < limit
    /\ files' = [files EXCEPT ![DirectoryOf(wf_status)] =
                    Put(@, workflow_id,
                        json_dump(StateData(workflow_id, state, wf_status, clock)))]
    /\ saves' = Append(saves, SaveCall(workflow_id, state, wf_status))
    /\ pret' = Answer("save_workflow_state", <<workflow_id, wf_status>>, TRUE)
    /\ UNCHANGED coord
    /\ UNCHANGED <<clock, status, workflows, tasks, sm, calls, hubvars, memvars, agentvars>>

\* `for status_dir in [...]: if file_path.exists()`: the first directory
\* that has a file of the workflow
FirstDirectory(fs, workflow_id) ==
    LET found == SelectSeq(Directories, LAMBDA d : workflow_id \in DOMAIN fs[d])
    IN  IF found = <<>> THEN None ELSE found[1]

\* load_workflow_state; the Optional it returns is <<>> for None and
\* <<state_data>> otherwise
load_workflow_state(workflow_id) ==
    /\ pret' = Answer("load_workflow_state", <<workflow_id>>,
                  LET status_dir == FirstDirectory(files, workflow_id) IN
                  IF status_dir = None THEN <<>>
                  ELSE <<json_load(files[status_dir][workflow_id])>>)
    /\ UNCHANGED <<files, saves, coord>>
    /\ UNCHANGED <<clock, status, workflows, tasks, sm, calls, hubvars, memvars, agentvars>>

\* state_data of update_workflow_status: the status and updated_at
Restated(state_data, new_status, now) ==
    [ k \in DOMAIN state_data \cup {"updated_at"} |->
        IF k = "status" THEN new_status
        ELSE IF k = "updated_at" THEN isoformat(now)
        ELSE state_data[k] ]

\* the files after update_workflow_status wrote the new file and unlinked
\* the one it found
Moved(fs, workflow_id, current_status, new_status, now) ==
    LET state_data == Restated(json_load(fs[current_status][workflow_id]),
                               new_status, now)
        written    == [fs EXCEPT ![DirectoryOf(new_status)] =
                          Put(@, workflow_id, json_dump(state_data))]
    IN  IF DirectoryOf(new_status) # current_status
        THEN [written EXCEPT ![current_status] = Del(@, workflow_id)]
        ELSE written

\* update_workflow_status
update_workflow_status(workflow_id, new_status) ==
    /\ LET current_status == FirstDirectory(files, workflow_id) IN
       IF current_status = None
       THEN /\ pret' = Answer("update_workflow_status",
                              <<workflow_id, new_status>>, FALSE)
            /\ UNCHANGED files
       ELSE /\ pret' = Answer("update_workflow_status",
                              <<workflow_id, new_status>>, TRUE)
            /\ files' = Moved(files, workflow_id, current_status, new_status,
                              clock)
    /\ UNCHANGED <<saves, coord>>
    /\ UNCHANGED <<clock, status, workflows, tasks, sm, calls, hubvars, memvars, agentvars>>

\* archive_workflow
archive_workflow(workflow_id) == update_workflow_status(workflow_id, "archived")

\* ----------------------------------------------------- coordinator_agent.py
\* BaseAgent declares _execute_impl with @abstractmethod.  The agent classes
\* of the repository define execute and no _execute_impl; a class can only
\* be instantiated when a subclass supplies the method ("subclass" stands
\* for a CoordinatorAgent subclass that does).
AbstractMethods == {"_execute_impl"}

\* the abstract methods of BaseAgent a class overrides
Implements(cls) ==
    IF cls \in {"CoordinatorAgent", "ResearchAgent", "WriterAgent", "EditorAgent"}
    THEN {}
    ELSE {"_execute_impl"}

\* ABCMeta: a class with an abstract method left cannot be instantiated
Instantiable(cls) == AbstractMethods \subseteq Implements(cls)

\* str() of the TypeError the instantiation raises
TypeError(cls) ==
    <<"Can't instantiate abstract class", cls,
      "with abstract method _execute_impl">>

CoordinatorClasses == {"CoordinatorAgent", "subclass"}

\* the phase agents in the order _initialize_agents builds them and execute
\* calls them
PhaseAgents == <<"researcher", "writer", "editor">>
ClassOf(role) ==
    CASE role = "researcher" -> "ResearchAgent"
      [] role = "writer"     -> "WriterAgent"
      [] role = "editor"     -> "EditorAgent"

\* no coordinator built yet
NoCoordinator ==
    [ pc |-> "none", cls |-> None, self |-> None, agents |-> {},
      agent_statuses |-> EmptyDict, ran |-> <<>>,
      result |-> <<>>, raised |-> <<>> ]

\* CoordinatorAgent.__init__ after super().__init__
Coordinator(cls, now) ==
    [NoCoordinator EXCEPT
        !.pc   = "idle",
        !.cls  = cls,
        !.self = [BaseAgent(now) EXCEPT !.agent_id = "coordinator_001",
                                        !.agent_type = "coordinator",
                                        !.name = "Coordinator Agent",
                                        !.state.agent_id = "coordinator_001"]]

\* a caller builds the coordinator: CoordinatorAgent("coordinator_001")
CoordinatorAgent(cls) ==
    /\ coord.pc \in {"none", "raised"}
    /\ coord' = IF Instantiable(cls) THEN Coordinator(cls, clock)
                ELSE [NoCoordinator EXCEPT !.pc = "raised", !.cls = cls,
                                           !.raised = TypeError(cls)]
    /\ UNCHANGED <<clock, status, workflows, tasks, sm, calls, hubvars, memvars, agentvars, persistvars>>

\* _initialize_agents up to its first exception: the roles whose agent was
\* built, and the exception of the first class that cannot be instantiated
RECURSIVE Built(_)
Built(roles) ==
    IF roles = <<>> THEN [agents |-> {}, raised |-> <<>>]
    ELSE IF ~Instantiable(ClassOf(Head(roles)))
    THEN [agents |-> {}, raised |-> TypeError(ClassOf(Head(roles)))]
    ELSE LET rest == Built(Tail(roles)) IN
         [agents |-> {Head(roles)} \cup rest.agents, raised |-> rest.raised]

\* f"Coordinating content generation for: {topic}"
CoordinationTask(topic) == <<"Coordinating content generation for:", topic>>

\* CoordinatorAgent.execute: start_task, update_progress(0.1) and
\* _initialize_agents; its exception is caught by execute, recorded with
\* handle_error and answered with a result of status "error".  The phases
\* after _initialize_agents are reached by no call.
coordinator_execute(topic) ==
    /\ coord.pc \in {"idle", "returned"}
    /\ Len(requested) < MaxCoordinations
    /\ LET started == [Started_task(coord.self, CoordinationTask(topic), clock)
                          EXCEPT !.state.task_progress = Clamp(10)]
           built   == Built(PhaseAgents)
           context == <<"workflow coordination">> IN
       IF built.raised # <<>>
       THEN /\ coord' = [coord EXCEPT
                           !.pc = "returned",
                           !.self = Failed(started, built.raised, context, clock),
                           !.agents = built.agents,
                           !.ran = <<>>,
                           !.result = <<[status |-> "error",
                                         error  |-> built.raised]>>]
            /\ requested' = Append(requested,
                               MemoryRequest(ErrorMsg(built.raised, context),
                                             "error", 90))
       ELSE /\ coord' = [coord EXCEPT
                           !.pc = "research",
                           !.self = [started EXCEPT !.state.task_progress = Clamp(20)],
                           !.agents = built.agents,
                           !.agent_statuses =
                               [r \in built.agents |-> "ready"],
                           !.ran = <<>>, !.result = <<>>]
            /\ UNCHANGED requested
    /\ UNCHANGED <<agent, exec>>
    /\ UNCHANGED <<clock, status, workflows, tasks, sm, calls, hubvars, memvars, persistvars>>

\* the status pause_workflow, resume_workflow and cancel_workflow of the
\* coordinator assign to it and to the phase agents it has
Controls == {"paused", "busy", "idle"}

\* CoordinatorAgent.pause_workflow, resume_workflow, cancel_workflow
coordinator_control(new_status) ==
    /\ coord.pc \in {"idle", "returned"}
    /\ coord' = [coord EXCEPT !.self.status = new_status]
    /\ UNCHANGED <<clock, status, workflows, tasks, sm, calls, hubvars, memvars, agentvars, persistvars>>

\* BaseAgent.reset, which the coordinator inherits
coordinator_reset ==
    /\ coord.pc \in {"idle", "returned"}
    /\ coord' = [coord EXCEPT
                    !.self.status = "idle",
                    !.self.state = AgentState(coord.self.agent_id, clock)]
    /\ UNCHANGED <<clock, status, workflows, tasks, sm, calls, hubvars, memvars, agentvars, persistvars>>

\* ------------------------------------------------------------------- Init
Init ==
    /\ clock = 0
    /\ status = "idle"
    /\ workflows = [x \in {} |-> None]
    /\ tasks = <<>>
    /\ sm = NoRun
    /\ calls = 0
    /\ entries = <<>>
    /\ running = FALSE
    /\ loops = <<>>
    /\ getter = Idle
    /\ nextId = 1
    /\ ret = NoReturn
    /\ openai_client = FALSE
    /\ memories = [x \in {} |-> None]
    /\ embeddings = [x \in {} |-> None]
    /\ stores = <<>>
    /\ order = <<>>
    /\ answer = NoAnswer
    /\ agent = BaseAgent(0)
    /\ requested = <<>>
    /\ exec = NoExecute
    /\ files = NoFiles
    /\ saves = <<>>
    /\ pret = NoAnswer
    /\ coord = NoCoordinator

\* ------------------------------------------- actions of the state machine
\* WorkflowStateMachine.execute_workflow called directly: entry
SMExecute(topic) ==
    /\ sm.pc \in {"idle", "returned"}
    /\ calls < MaxCalls
    /\ sm' = NewRun(clock, topic)
    /\ calls' = calls + 1
    /\ UNCHANGED <<clock, status, workflows, tasks, hubvars, memvars, agentvars, persistvars, coord>>

SMStep(n, fail, conflict) ==
    /\ CanStep(sm, n, fail, conflict)
    /\ sm' = StepRun(sm, n, fail, conflict)
    /\ UNCHANGED <<clock, status, workflows, tasks, calls, hubvars, memvars, agentvars, persistvars, coord>>

SMNext ==
    \/ \E topic \in Topics : SMExecute(topic)
    \/ \E n \in Nodes, fail \in BOOLEAN, conflict \in BOOLEAN : SMStep(n, fail, conflict)

SMSpec == Init /\ [][SMNext]_vars

\* -------------------------------------------- actions of the orchestrator
Tick ==
    /\ clock < MaxClock
    /\ clock' = clock + 1
    /\ UNCHANGED <<status, workflows, tasks, sm, calls, hubvars, memvars, agentvars, persistvars, coord>>

\* WorkflowOrchestrator.execute_workflow
execute_workflow(topic, limit) ==
    /\ Len(tasks) < limit
    /\ LET execution_id == clock IN
       /\ workflows' = Put(workflows, execution_id,
                           WorkflowExecution(execution_id, Len(tasks) + 1, clock))
       /\ tasks' = Append(tasks, BackgroundTask(execution_id, topic))
    /\ UNCHANGED <<clock, status, sm, calls, hubvars, memvars, agentvars, persistvars, coord>>

\* One pass of the while loop up to the call of the state machine.  The call
\* either raises before the graph is entered (the part of
\* WorkflowStateMachine.execute_workflow outside its try) and the except
\* branch of the loop runs, or the context is allocated and the graph starts.
BgAttempt(t, raises) ==
    LET tk == tasks[t]
        e  == tk.execution_id
        w  == workflows[e] IN
    /\ tk.pc \in {"scheduled", "sleep"}
    /\ IF ~LoopCond(tk.retries)
       THEN /\ tasks' = [tasks EXCEPT ![t].pc = "done"]
            /\ UNCHANGED workflows
       ELSE IF raises
       THEN /\ workflows' = [workflows EXCEPT ![e] =
                               [w EXCEPT !.status = "error",
                                         !.error_message = "exc",
                                         !.end_time = clock]]
            /\ tasks' = [tasks EXCEPT ![t] =
                           [tk EXCEPT !.runs = @ + 1,
                                      !.retries = @ + 1,
                                      !.run = NoRun,
                                      !.pc = IF ShouldRetry(tk.retries + 1)
                                             THEN "sleep" ELSE "raised"]]
       ELSE /\ workflows' = [workflows EXCEPT ![e].status = "running"]
            /\ tasks' = [tasks EXCEPT ![t] =
                           [tk EXCEPT !.runs = @ + 1,
                                      !.pc = "running",
                                      !.run = NewRun(clock, tk.topic)]]
    /\ UNCHANGED <<clock, status, sm, calls, hubvars, memvars, agentvars, persistvars, coord>>

\* the state machine the task is waiting for runs one node
GraphStep(t, n, fail, conflict) ==
    LET tk == tasks[t]
        w  == workflows[tk.execution_id] IN
    /\ tk.pc = "running"
    /\ CanStep(tk.run, n, fail, conflict)
    /\ tasks' = [tasks EXCEPT ![t] =
                   [tk EXCEPT !.run = StepRun(tk.run, n, fail, conflict),
                              !.flagged = IF w.status \in {"paused", "cancelled"}
                                          THEN (IF @ < 2 THEN @ + 1 ELSE 2) ELSE 0]]
    /\ UNCHANGED <<clock, status, workflows, sm, calls, hubvars, memvars, agentvars, persistvars, coord>>

BgComplete_noProgress(t) ==
    LET tk == tasks[t]
        e  == tk.execution_id IN
    /\ tk.pc = "running"
    /\ tk.run.pc = "returned"
    /\ workflows' = [workflows EXCEPT ![e] =
                       [@ EXCEPT !.status = "completed",
                                 !.end_time = clock]]
    /\ tasks' = [tasks EXCEPT ![t].pc = "done"]
    /\ UNCHANGED <<clock, status, sm, calls, hubvars, memvars, agentvars, persistvars, coord>>

\* the state machine has returned its context: success path of the loop
BgComplete(t) ==
    LET tk == tasks[t]
        e  == tk.execution_id IN
    /\ tk.pc = "running"
    /\ tk.run.pc = "returned"
    /\ workflows' = [workflows EXCEPT ![e] =
                       [@ EXCEPT !.status = "completed",
                                 !.end_time = clock,
                                 !.progress = 100]]
    /\ tasks' = [tasks EXCEPT ![t].pc = "done"]
    /\ UNCHANGED <<clock, status, sm, calls, hubvars, memvars, agentvars, persistvars, coord>>

Pause_anyStatus(ws, e) ==
    IF e \in DOMAIN ws
    THEN [value |-> TRUE, workflows |-> [ws EXCEPT ![e].status = "paused"]]
    ELSE [value |-> FALSE, workflows |-> ws]

\* pause_workflow as a function of the registry: the value it returns and
\* the registry it leaves
Pause(ws, e) ==
    IF e \in DOMAIN ws /\ ws[e].status = "running"
    THEN [value |-> TRUE, workflows |-> [ws EXCEPT ![e].status = "paused"]]
    ELSE [value |-> FALSE, workflows |-> ws]

\* resume_workflow in the same way
Resume(ws, e) ==
    IF e \in DOMAIN ws /\ ws[e].status = "paused"
    THEN [value |-> TRUE, workflows |-> [ws EXCEPT ![e].status = "running"]]
    ELSE [value |-> FALSE, workflows |-> ws]

\* a call of pause_workflow that changes the registry (a call that returns
\* False leaves every variable as it is)
pause_workflow(e) ==
    /\ Pause(workflows, e).value
    /\ workflows' = Pause(workflows, e).workflows
    /\ UNCHANGED <<clock, status, tasks, sm, calls, hubvars, memvars, agentvars, persistvars, coord>>

\* a call of resume_workflow that changes the registry
resume_workflow(e) ==
    /\ Resume(workflows, e).value
    /\ workflows' = Resume(workflows, e).workflows
    /\ tasks' = [t \in TaskIds |->
                   IF tasks[t].execution_id = e
                   THEN [tasks[t] EXCEPT !.flagged = 0] ELSE tasks[t]]
    /\ UNCHANGED <<clock, status, sm, calls, hubvars, memvars, agentvars, persistvars, coord>>

cancelled(w) == [w EXCEPT !.status = "cancelled", !.end_time = clock]

cancel_workflow(e) ==
    /\ e \in DOMAIN workflows
    /\ workflows' = [workflows EXCEPT ![e] = cancelled(@)]
    /\ UNCHANGED <<clock, status, tasks, sm, calls, hubvars, memvars, agentvars, persistvars, coord>>

\* WorkflowOrchestrator.stop with _stop_all_workflows
stop ==
    /\ status' = "shutdown"
    /\ Stopped
    /\ workflows' = [e \in DOMAIN workflows |->
                       IF workflows[e].status = "running"
                       THEN cancelled(workflows[e]) ELSE workflows[e]]
    /\ UNCHANGED <<clock, tasks, sm, calls, entries, loops, getter, nextId, ret, memvars, agentvars, persistvars, coord>>

\* WorkflowOrchestrator.start with communication_hub.start (every call
\* creates a processor task; MaxStarts calls are followed)
start ==
    /\ status' = "idle"
    /\ Started(MaxStarts)
    /\ UNCHANGED <<clock, workflows, tasks, sm, calls, entries, getter, nextId, ret, memvars, agentvars, persistvars, coord>>

\* One execution followed through every outcome of its attempts and every
\* call of the control operations (executions meet only in the registry,
\* which SubmitSpec covers).
Next ==
    \/ \E topic \in Topics : execute_workflow(topic, 1)
    \/ \E t \in TaskIds, raises \in BOOLEAN : BgAttempt(t, raises)
    \/ \E t \in TaskIds, n \in Nodes, fail \in BOOLEAN, conflict \in BOOLEAN :
          GraphStep(t, n, fail, conflict)
    \/ \E t \in TaskIds : BgComplete(t)
    \/ \E e \in ExecutionIds : pause_workflow(e)
    \/ \E e \in ExecutionIds : resume_workflow(e)
    \/ \E e \in ExecutionIds : cancel_workflow(e)
    \/ stop
    \/ start

Spec == Init /\ [][Next]_vars

\* several submissions side by side, their runs without failures
SubmitNext ==
    \/ Tick
    \/ \E topic \in Topics : execute_workflow(topic, MaxSubmissions)
    \/ \E t \in TaskIds : BgAttempt(t, FALSE)
    \/ \E t \in TaskIds, n \in Nodes : GraphStep(t, n, FALSE, FALSE)
    \/ \E t \in TaskIds : BgComplete(t)

SubmitSpec == Init /\ [][SubmitNext]_vars


\* the event loop keeps running a background task that is ready: every step
\* of the coroutine and of the graph it awaits is eventually taken
BgWork ==
    \E t \in TaskIds :
        \/ \E raises \in BOOLEAN : BgAttempt(t, raises)
        \/ \E n \in Nodes, fail \in BOOLEAN, conflict \in BOOLEAN :
              GraphStep(t, n, fail, conflict)
        \/ BgComplete(t)

FairSpec == Spec /\ WF_vars(BgWork)


\* ------------------------------------------------------ hub specifications
\* the two agents the loop and the senders are followed with
LoopIds == 1..2

\* sending to a changing directory while the clock advances
SendNext ==
    \/ Tick
    \/ \E a \in LoopIds : register_agent(a, "Research Agent", FALSE, MaxRegs)
    \/ \E a \in LoopIds : unregister_agent(a)
    \/ \E r \in LoopIds, x \in {NoTime, 0} : send_message(1, r, x, MaxMsgs)

SendSpec == Init /\ [][SendNext]_vars

\* broadcasting to the registered agents
BroadcastNext ==
    \/ Tick
    \/ \E a \in AgentIds : register_agent(a, "Research Agent", FALSE, MaxAgents)
    \/ \E s \in AgentIds, ex \in BOOLEAN, x \in {NoTime, 0} :
          broadcast_message(s, ex, x, MaxAgents)

BroadcastSpec == Init /\ [][BroadcastNext]_vars

\* registrations with every name and handler next to senders
RegNext ==
    \/ \E a \in LoopIds, n \in Names, h \in BOOLEAN : register_agent(a, n, h, MaxRegs)
    \/ \E a \in LoopIds : add_message_handler(a)
    \/ \E r \in LoopIds : send_message(1, r, NoTime, MaxMsgs)

RegSpec == Init /\ [][RegNext]_vars

\* mailboxes drained by an outside reader and by the dispatch loop
DrainNext ==
    \/ \E a \in LoopIds, h \in BOOLEAN : register_agent(a, "Research Agent", h, MaxRegs)
    \/ \E r \in LoopIds : send_message(1, r, NoTime, MaxMsgs)
    \/ hub_start(MaxStarts)
    \/ \E l \in 1..MaxStarts : ProcessorTop(l)
    \/ \E l \in 1..MaxStarts : ProcessorGet(l)
    \/ \E l \in 1..MaxStarts : ProcessorCheck(l)
    \/ \E l \in 1..MaxStarts : ProcessorDispatch(l, FALSE)
    \/ \E a \in LoopIds : get_messages(a)
    \/ GetterGet
    \/ GetterCheck

DrainSpec == Init /\ [][DrainNext]_vars

\* the event loop keeps running a processor task that is ready
ProcessorStep(l) ==
    \/ ProcessorTop(l)
    \/ ProcessorGet(l)
    \/ ProcessorCheck(l)
    \/ \E raises \in BOOLEAN : ProcessorDispatch(l, raises)

ProcessorFair == \A l \in 1..MaxStarts : WF_vars(ProcessorStep(l))

\* one call of start(): a single processor task
ProcessorNext(mayRaise) ==
    \/ hub_start(1)
    \/ ProcessorTop(1)
    \/ ProcessorGet(1)
    \/ ProcessorCheck(1)
    \/ \E raises \in {FALSE, mayRaise} : ProcessorDispatch(1, raises)

\* the dispatch loop started and stopped next to senders
StopNext ==
    \/ \E a \in LoopIds : register_agent(a, "Research Agent", TRUE, MaxRegs)
    \/ \E r \in LoopIds : send_message(1, r, NoTime, MaxMsgs)
    \/ hub_start(MaxStarts)
    \/ hub_stop
    \/ \E l \in 1..MaxStarts : ProcessorTop(l)
    \/ \E l \in 1..MaxStarts : ProcessorGet(l)
    \/ \E l \in 1..MaxStarts : ProcessorCheck(l)
    \/ \E l \in 1..MaxStarts : ProcessorDispatch(l, FALSE)

StopSpec == Init /\ [][StopNext]_vars /\ ProcessorFair

\* start() and stop() called again and again on a hub with one agent
StartsNext ==
    \/ register_agent(1, "Research Agent", TRUE, 1)
    \/ send_message(1, 1, NoTime, MaxMsgs)
    \/ hub_start(MaxStarts + 1)
    \/ hub_stop
    \/ \E l \in 1..(MaxStarts + 1) : ProcessorTop(l)
    \/ \E l \in 1..(MaxStarts + 1) : ProcessorGet(l)
    \/ \E l \in 1..(MaxStarts + 1) : ProcessorCheck(l)
    \/ \E l \in 1..(MaxStarts + 1) : ProcessorDispatch(l, FALSE)

StartsSpec == Init /\ [][StartsNext]_vars

\* the dispatch loop with handlers that raise
RaiseNext ==
    \/ \E a \in LoopIds : register_agent(a, "Research Agent", TRUE, MaxRegs)
    \/ \E a \in LoopIds : add_message_handler(a)
    \/ \E r \in LoopIds : send_message(1, r, NoTime, MaxMsgs)
    \/ ProcessorNext(TRUE)

RaiseSpec == Init /\ [][RaiseNext]_vars /\ WF_vars(ProcessorStep(1))

\* the dispatch loop and the senders of agent 1 next to a changing registry
ChurnNext ==
    \/ \E a \in LoopIds : register_agent(a, "Research Agent", TRUE, MaxRegs)
    \/ \E a \in LoopIds : unregister_agent(a)
    \/ send_message(2, 1, NoTime, MaxMsgs)
    \/ ProcessorNext(FALSE)

ChurnSpec == Init /\ [][ChurnNext]_vars /\ WF_vars(ProcessorStep(1))

\* --------------------------------------------------- memory specification
MemNext ==
    \/ Tick
    \/ \E client \in BOOLEAN : MemoryManager(client)
    \/ \E content \in Contents, args \in StoreArgs : store_memory(content, args)
    \/ \E c \in 1..MaxStores, raises \in BOOLEAN : StoreCommit(c, raises)

MemSpec == Init /\ [][MemNext]_vars

\* store, update and delete on a manager without a provider client
EditNext ==
    \/ \E content \in Contents, args \in StoreArgs : store_memory(content, args)
    \/ \E c \in 1..MaxStores : StoreCommit(c, FALSE)
    \/ \E memory_id \in MemoryIds, updates \in Updates :
          update_memory(memory_id, updates)
    \/ \E memory_id \in MemoryIds : delete_memory(memory_id)

EditSpec == Init /\ [][EditNext]_vars

\* store and retrieve_memories on a manager without a provider client
FilterNext ==
    \/ Tick
    \/ \E content \in Contents, args \in StoreArgs : store_memory(content, args)
    \/ \E c \in 1..MaxStores : StoreCommit(c, FALSE)
    \/ \E query \in Queries, memory_type \in MemoryTypes, limit \in Limits,
          filters \in Filters :
          retrieve_memories(query, memory_type, limit, filters)

FilterSpec == Init /\ [][FilterNext]_vars

\* store and retrieve_similar_memories, with and without a provider client,
\* on entries of one type
SimilarNext ==
    \/ \E client \in BOOLEAN : MemoryManager(client)
    \/ \E content \in Contents,
          args \in {a \in StoreArgs : a.memory_type = "research"} :
          store_memory(content, args)
    \/ \E c \in 1..MaxStores, raises \in BOOLEAN : StoreCommit(c, raises)
    \/ \E query \in Queries \ {<<>>}, memory_type \in {None, "general"},
          limit \in Limits, similarity_threshold \in Thresholds,
          raises \in BOOLEAN :
          retrieve_similar_memories(query, memory_type, limit,
                                    similarity_threshold, raises)

SimilarSpec == Init /\ [][SimilarNext]_vars

\* store, delete and a retrieval of everything stored
DeleteNext ==
    \/ \E content \in Contents, args \in StoreArgs : store_memory(content, args)
    \/ \E c \in 1..MaxStores : StoreCommit(c, FALSE)
    \/ \E memory_id \in MemoryIds : delete_memory(memory_id)
    \/ retrieve_memories(<<>>, "general", 2, EmptyDict)

DeleteSpec == Init /\ [][DeleteNext]_vars

\* ------------------------------------------------------ agent specifications
\* the lifecycle operations of one agent, called in any order
LifecycleNext ==
    \/ Tick
    \/ \E task_description \in Descriptions : start_task(task_description)
    \/ \E progress \in Progresses : update_progress(progress)
    \/ \E result \in TaskResults : complete_task(result)
    \/ \E error \in Exceptions, context \in Contexts :
          handle_error(error, context)
    \/ initialize
    \/ reset

\* the steps of execute on an agent whose implementation starts and
\* completes its task
RetryNext ==
    \/ execute(MaxExecutes)
    \/ \E enters \in BOOLEAN, trace_error \in Exceptions :
          ExecuteTrace(enters, trace_error)
    \/ \E result \in TaskResults : ExecuteReturn(result)
    \/ \E error \in Exceptions : ExecuteRaise(error)
    \/ ExecuteSleep
    \/ \E task_description \in Descriptions : start_task(task_description)
    \/ complete_task(None)

\* ------------------------------------------------ persistence specifications
\* saves and loads of workflow states
SaveNext ==
    \/ \E workflow_id \in PersistedIds, state \in States, st \in Statuses :
          save_workflow_state(workflow_id, state, st, MaxSaves)
    \/ \E workflow_id \in PersistedIds : load_workflow_state(workflow_id)

SaveSpec == Init /\ [][SaveNext]_vars

\* saves, status updates and archiving of one workflow
PartitionNext ==
    \/ \E state \in States, st \in Statuses :
          save_workflow_state("wf-1", state, st, MaxSaves)
    \/ \E workflow_id \in PersistedIds, new_status \in Statuses :
          update_workflow_status(workflow_id, new_status)
    \/ \E workflow_id \in PersistedIds : archive_workflow(workflow_id)

PartitionSpec == Init /\ [][PartitionNext]_vars

\* ------------------------------------------------ coordinator specification
\* callers build a coordinator, call execute and the control operations
CoordinatorNext ==
    \/ Tick
    \/ \E cls \in CoordinatorClasses : CoordinatorAgent(cls)
    \/ \E topic \in Topics : coordinator_execute(topic)
    \/ \E new_status \in Controls : coordinator_control(new_status)
    \/ coordinator_reset

CoordinatorSpec == Init /\ [][CoordinatorNext]_vars

LifecycleSpec == Init /\ [][LifecycleNext]_vars

ExecuteSpec == Init /\ [][RetryNext]_vars

\* ================================================================ claims
WorkingPhases == {"research", "write", "edit"}

Rank(n) ==
    CASE n = "research" -> 1
      [] n = "write"    -> 2
      [] n = "edit"     -> 3
      [] n = "complete" -> 4
      [] OTHER          -> 0

\* some working-phase handler of run r has set error_message
PhaseFailed(r) ==
    \E i \in DOMAIN r.trace : r.trace[i].failed /\ r.trace[i].node \in WorkingPhases

\* no handler of run r has set error_message
Clean(r) == \A i \in DOMAIN r.trace : ~r.trace[i].failed

Handlers(r) == [i \in DOMAIN r.trace |-> r.trace[i].node]

PhaseOrder == <<"research", "write", "edit", "complete">>

\* C1: in a run in which a working-phase handler set error_message, no
\* handler of a later phase runs after it, and the run ends in state Error.
C1_ErrorStopsLaterPhases ==
    /\ \A i \in DOMAIN sm.trace :
          (sm.trace[i].failed /\ sm.trace[i].node \in WorkingPhases)
          => \A j \in DOMAIN sm.trace :
                j > i => Rank(sm.trace[j].node) <= Rank(sm.trace[i].node)
    /\ (sm.pc = "returned" /\ PhaseFailed(sm)) => sm.ctx.current_state = "error"

\* C2: an execution whose state machine run ended in Error never has status
\* "completed"; when its background task is over the record has status
\* "error" and an error message.
C2_ErrorRunNeverCompleted ==
    \A t \in TaskIds :
        LET tk == tasks[t]
            w  == workflows[tk.execution_id] IN
        (tk.run.pc = "returned" /\ tk.run.ctx.current_state = "error")
        => /\ w.status # "completed"
           /\ tk.pc \in {"done", "raised"} => w.error_message # None

\* C3: a run in which no handler sets error_message runs research, write,
\* edit, complete once each in that order and ends Completed with
\* final_content non-empty and quality_score set.
C3_CleanRunCompletes ==
    Clean(sm) =>
        /\ Len(sm.trace) <= Len(PhaseOrder)
        /\ Handlers(sm) = SubSeq(PhaseOrder, 1, Len(sm.trace))
        /\ sm.pc = "returned" =>
              /\ Handlers(sm) = PhaseOrder
              /\ sm.ctx.current_state = "completed"
              /\ sm.ctx.final_content # <<>>
              /\ sm.ctx.quality_score > 0

C3_Witness ==
    /\ sm.pc = "returned"
    /\ Clean(sm)
    /\ Handlers(sm) = PhaseOrder
    /\ sm.ctx.current_state = "completed"

LegalEdges ==
    { <<"pending", "researching">>, <<"researching", "writing">>,
      <<"writing", "editing">>, <<"editing", "completed">>,
      <<"researching", "error">>, <<"writing", "error">>, <<"editing", "error">> }

\* C4: the current_state of a context changes only along the legal edges of
\* the phase graph; Completed and Error are never left.
C4_LegalEdgesOnly ==
    [][ (calls' = calls /\ sm'.ctx.current_state # sm.ctx.current_state)
        => <<sm.ctx.current_state, sm'.ctx.current_state>> \in LegalEdges ]_vars

\* the record of task t shows a finished, successful execution
C5_Completed(t) ==
    LET w == workflows[tasks[t].execution_id] IN
    /\ w.status = "completed"
    /\ w.progress = 100
    /\ w.end_time # NoTime
    /\ w.error_message = None

C6_DistinctExecutionIds ==
    /\ Cardinality(DOMAIN workflows) = Len(tasks)
    /\ \A t, u \in TaskIds : t # u => tasks[t].execution_id # tasks[u].execution_id

\* C7: while an execution is paused or cancelled at most the handler at the
\* next phase boundary still starts, none after it, and a cancelled
\* execution is not driven on to status "completed".
C7_FlagsTakeEffect ==
    [][ \A t \in TaskIds :
          LET e == tasks[t].execution_id IN
          /\ (workflows[e].status \in {"paused", "cancelled"}
              /\ tasks'[t].run.trace # tasks[t].run.trace)
             => tasks[t].flagged = 0
          /\ workflows[e].status = "cancelled" => workflows'[e].status # "completed" ]_vars

\* C8: the background task calls the state machine at most 1 + 3 times, a
\* further call only after the previous one raised, and it ends after the
\* first call that returned or after the fourth that raised.
C8_BoundedRetry ==
    \A t \in TaskIds :
        LET tk == tasks[t] IN
        /\ tk.runs <= 1 + 3
        /\ tk.runs = tk.retries + (IF tk.pc \in {"running", "done"} THEN 1 ELSE 0)
        /\ tk.pc = "sleep" => tk.retries \in 1..3
        /\ tk.pc = "done" => tk.run.pc = "returned"
        /\ tk.pc = "raised" => tk.retries = 1 + 3

C8_Witness ==
    \E t \in TaskIds : tasks[t].pc = "raised" /\ tasks[t].runs = 4

\* C9: once an execution has status "error" with its retry budget
\* exhausted, its status and error_message never change and its record
\* stays in the registry.
C9_ErrorIsPermanent ==
    [][ \A t \in TaskIds :
          LET e == tasks[t].execution_id IN
          (tasks[t].pc = "raised" /\ workflows[e].status = "error")
          => /\ e \in DOMAIN workflows'
             /\ workflows'[e].status = "error"
             /\ workflows'[e].error_message = workflows[e].error_message ]_vars

\* C10: when a run failed in a phase after earlier phases produced output,
\* the sources gathered before the failure are obtainable from the status
\* snapshot of the execution once its background task is over.
C10_PartialOutputKept ==
    \A t \in TaskIds :
        LET tk == tasks[t] IN
        (tk.pc = "done" /\ PhaseFailed(tk.run) /\ tk.run.ctx.research_sources # <<>>)
        => tk.run.ctx.research_sources \in get_workflow_status(tk.execution_id).metadata

\* ------------------------------------------------------------- hub claims
LastOf(q) == q[Len(q)]

\* C13: send_message returns success and appends the message to the
\* recipient's mailbox exactly when the recipient is registered and the
\* message's expiry, if any, is not in the past; otherwise it returns
\* failure and leaves every mailbox and the directory as they were.
C13_SendAcceptsIffRegisteredAndFresh ==
    [][\A r \in LoopIds, x \in {NoTime, 0} :
          send_message(1, r, x, MaxMsgs) =>
             LET m  == AgentMessage(nextId, 1, r, x)
                 ok == Registered(entries, r) /\ (x = NoTime \/ clock <= x) IN
             /\ ret' = Return("send_message", ok)
             /\ ok => entries' =
                        [entries EXCEPT ![Lookup(entries, r)].queue = Append(@, m),
                                        ![Lookup(entries, r)].sent = Append(@, m.id)]
             /\ ~ok => entries' = entries]_vars

\* an expired message was refused by a hub on which every agent is registered
\* and an earlier message waits in a mailbox
C13_Witness ==
    /\ ret = Return("send_message", FALSE)
    /\ \A a \in LoopIds : Registered(entries, a)
    /\ \E i \in Live(entries) : entries[i].queue # <<>>

\* C14: a broadcast of a non-expired message with exclude_sender set returns
\* the number of registered agents other than the sender and appends exactly
\* one copy to the mailbox of each of them and nothing to the sender's; every
\* copy carries a fresh id, different from the original's and from the other
\* copies'.
C14_BroadcastReachesEveryOtherAgent ==
    [][\A s \in AgentIds, x \in {NoTime, 0} :
          (broadcast_message(s, TRUE, x, MaxAgents) /\ (x = NoTime \/ clock <= x)) =>
             LET others == {i \in Live(entries) : entries[i].agent_id # s} IN
             /\ ret' = Return("broadcast_message", Cardinality(others))
             /\ Len(entries') = Len(entries)
             /\ \A i \in Slots(entries) :
                   IF i \in others
                   THEN /\ entries'[i].queue # <<>>
                        /\ entries'[i].queue =
                              Append(entries[i].queue, LastOf(entries'[i].queue))
                        /\ LastOf(entries'[i].queue).recipient_id = entries[i].agent_id
                        /\ LastOf(entries'[i].queue).sender_id = s
                        /\ LastOf(entries'[i].queue).expires_at = x
                        /\ LastOf(entries'[i].queue).id > nextId
                        /\ LastOf(entries'[i].queue).id < nextId'
                   ELSE entries'[i] = entries[i]
             /\ \A i \in others, j \in others :
                   i # j => LastOf(entries'[i].queue).id # LastOf(entries'[j].queue).id]_vars

\* three agents are registered and the broadcast of one of them reached the
\* two others
C14_Witness ==
    /\ ret = Return("broadcast_message", 2)
    /\ Cardinality(Live(entries)) = 3
    /\ \E i \in Live(entries) : entries[i].queue = <<>>

\* C15: register_agent with an id that is already registered returns failure
\* and leaves the mailbox with its queued messages, the handler list and the
\* directory entry of that id (and of every other id) unchanged; the handler
\* passed with the call is not added.
C15_DuplicateRegistrationRejected ==
    [][\A a \in LoopIds, n \in Names, h \in BOOLEAN :
          (register_agent(a, n, h, MaxRegs) /\ Registered(entries, a)) =>
             /\ ret' = Return("register_agent", FALSE)
             /\ entries' = entries]_vars

\* a second registration was refused for the one registered agent, which has
\* a handler and a message waiting
C15_Witness ==
    /\ ret = Return("register_agent", FALSE)
    /\ Cardinality(Live(entries)) = 1
    /\ \E i \in Live(entries) : entries[i].queue # <<>> /\ entries[i].handlers = 1

\* ------------------------------------------------------ mailbox histories
Range(s) == {s[i] : i \in 1..Len(s)}

NoDup(s) == \A i \in 1..Len(s), j \in 1..Len(s) : i # j => s[i] # s[j]

Pos(t, x) == CHOOSE k \in 1..Len(t) : t[k] = x

\* s lists elements of t, each once, in the order they have in t
InOrderOf(s, t) ==
    /\ Range(s) \subseteq Range(t)
    /\ \A i \in 1..Len(s), j \in 1..Len(s) : i < j => Pos(t, s[i]) < Pos(t, s[j])

IsPrefix(s, t) == Len(s) <= Len(t) /\ s = SubSeq(t, 1, Len(s))

\* what the calls of the outside reader on slot e have taken so far
Taken(e) ==
    entries[e].returned
       \o (IF getter.pc # "idle" /\ getter.e = e THEN Ids(getter.msgs) ELSE <<>>)

\* what processor l holds of slot e
InHand(l, e) ==
    IF loops[l].pc \in {"get", "check", "dispatch"} /\ loops[l].e = e
    THEN Ids(loops[l].msgs) ELSE <<>>

\* the messages handler h of slot e was called with, in call order
HandledIn(es, e, h) ==
    LET calls_h == SelectSeq(es[e].handled, LAMBDA r : r.h = h) IN
    [i \in 1..Len(calls_h) |-> calls_h[i].m]

HandledBy(e, h) == HandledIn(entries, e, h)

LoopIdx == 1..Len(loops)

\* C11: the messages accepted for a mailbox leave it through get_messages
\* in the order they were sent, each exactly once: what the calls have
\* removed so far, followed by what still waits, is the sequence of accepted
\* messages; the lists one reader got from its successive calls, put one
\* after the other, follow the send order and are all that was removed
\* when no dispatch loop reads the mailbox; and at the moment a call
\* returns the mailbox is empty.
C11_DrainedInSendOrder ==
    /\ [](\A e \in Slots(entries) :
            /\ entries[e].sent = entries[e].drained \o Ids(entries[e].queue)
            /\ NoDup(entries[e].sent)
            /\ InOrderOf(Taken(e), entries[e].sent)
            /\ ((entries[e].handled = <<>> /\ \A l \in LoopIdx : InHand(l, e) = <<>>)
                  => Taken(e) = entries[e].drained))
    /\ [][(getter.pc # "idle" /\ getter'.pc = "idle")
             => entries'[getter.e].queue = <<>>]_vars

\* one reader has drained two messages of one mailbox, in send order, and
\* the mailbox is empty
C11_Witness ==
    \E e \in Slots(entries) :
        /\ Len(entries[e].returned) = 2
        /\ entries[e].returned = entries[e].sent
        /\ entries[e].drained = entries[e].sent
        /\ entries[e].queue = <<>>
        /\ getter.pc = "idle"

\* C12: whatever the interleaving of dispatch loops and get_messages callers
\* on one mailbox, no message is both returned to a caller and passed to a
\* handler, none is returned twice, none is passed twice to the same
\* handler, none is held by two consumers, and none that was taken is still
\* in the mailbox.
C12_ConsumedAtMostOnce ==
    \A e \in Slots(entries) :
        LET handled == {entries[e].handled[i].m : i \in 1..Len(entries[e].handled)}
            inhand  == UNION {Range(InHand(l, e)) : l \in LoopIdx} IN
        /\ NoDup(Taken(e))
        /\ \A h \in 1..MaxHandlers : NoDup(HandledBy(e, h))
        /\ Range(Taken(e)) \cap (handled \cup inhand) = {}
        /\ handled \subseteq inhand \cup Range(entries[e].delivered)
        /\ NoDup(entries[e].delivered)
        /\ \A l \in LoopIdx : NoDup(InHand(l, e))
        /\ \A l1 \in LoopIdx, l2 \in LoopIdx :
              l1 # l2 => Range(InHand(l1, e)) \cap Range(InHand(l2, e)) = {}
        /\ Range(Ids(entries[e].queue))
              \cap (Range(Taken(e)) \cup handled \cup inhand) = {}

\* of one mailbox, a message went to the outside reader and another to the
\* handlers
C12_Witness ==
    \E e \in Slots(entries) :
        /\ entries[e].returned # <<>>
        /\ entries[e].delivered # <<>>

\* C16: a handler that raises does not disturb the dispatch: the loop goes
\* on exactly as after a handler that returned, so the remaining handlers
\* are called with the message, a message is marked delivered only after
\* every handler of its agent was called with it, and once a handler has
\* raised every message accepted for the same or for another agent on the
\* running hub is still delivered.
C16_HandlerFailureContained ==
    /\ [][ProcessorDispatch(1, TRUE) =>
             LET lp == loops[1] IN
             IF lp.hi < entries[lp.e].handlers
             THEN loops'[1] = [lp EXCEPT !.hi = @ + 1]
             ELSE /\ LastOf(entries'[lp.e].delivered) = lp.msgs[lp.mi].id
                  /\ \A h \in 1..entries[lp.e].handlers :
                        lp.msgs[lp.mi].id \in Range(HandledIn(entries', lp.e, h))
                  /\ IF lp.mi < Len(lp.msgs)
                     THEN loops'[1] = [lp EXCEPT !.mi = @ + 1, !.hi = 1]
                     ELSE loops'[1].pc \in {"top", "get"}]_vars
    /\ \A m \in 1..MaxMsgs :
          (/\ running
           /\ \E e \in Live(entries) : entries[e].raised # {}
           /\ \E e \in Live(entries) : m \in Range(entries[e].sent))
             ~> (\E e \in Live(entries) : m \in Range(entries[e].delivered))

\* the first handler raised on a message and the loop stands before the
\* second handler with the same message, another message behind it
C16_Witness ==
    /\ Len(loops) = 1
    /\ loops[1].pc = "dispatch"
    /\ loops[1].hi = 2
    /\ loops[1].mi = 1
    /\ Len(loops[1].msgs) = 2
    /\ loops[1].msgs[1].id \in entries[loops[1].e].raised

\* C17: once the flag is cleared, and as long as it stays cleared, a
\* processor that stands between two passes starts no other pass: its next
\* step ends it; and every processor ends unless start() is called again.
C17_StopEndsTheLoop ==
    /\ [][\A l \in LoopIdx :
             (~running /\ ~running' /\ loops[l].pc = "top")
                => (loops'[l].pc \in {"top", "exited"}
                    /\ (loops'[l] # loops[l] => loops'[l].pc = "exited"))]_vars
    /\ (~running /\ loops # <<>>)
          ~> (running \/ \A l \in LoopIdx : loops[l].pc = "exited")

\* the processor has ended after a delivery, with a message left in a
\* mailbox that has a handler
C17_Witness ==
    /\ ~running
    /\ \E l \in LoopIdx : loops[l].pc = "exited"
    /\ \E e \in Live(entries) : entries[e].delivered # <<>>
    /\ \E e \in Live(entries) : entries[e].queue # <<>> /\ entries[e].handlers > 0

\* C18: on a hub started once, the handler of a registered agent is called
\* with the messages accepted for the agent in send order, each once, and
\* every accepted message is passed to it unless the agent is unregistered,
\* also while other agents are registered and unregistered under the loop.
C18_EveryMessageHandledInOrder ==
    /\ [](\A e \in Slots(entries) :
            \A h \in 1..entries[e].handlers :
                IsPrefix(HandledBy(e, h), entries[e].sent))
    /\ \A e \in 1..MaxRegs, m \in 1..MaxMsgs :
          (/\ running
           /\ e \in Live(entries)
           /\ entries[e].handlers > 0
           /\ m \in Range(entries[e].sent))
             ~> (\/ e \notin Live(entries)
                 \/ \A h \in 1..entries[e].handlers : m \in Range(HandledBy(e, h)))

\* both messages of an agent were handled in send order while another agent
\* was registered and unregistered
C18_Witness ==
    \E e \in Live(entries) :
        /\ Len(entries[e].sent) = 2
        /\ HandledBy(e, 1) = entries[e].sent
        /\ \E o \in Slots(entries) : ~entries[o].live

\* ---------------------------------------------------------- memory claims
EntriesOf(content) == {k \in DOMAIN memories : memories[k].content = content}

\* C19: store_memory called with a content that is already stored returns
\* the hash the first call returned and changes nothing: one entry stays
\* under that hash, with the type, importance, metadata, owner, creation
\* time and embedding of the first call, whatever the second call passed.
C19_SecondStoreIsNoOp ==
    [][\A content \in Contents, args \in StoreArgs :
          (store_memory(content, args) /\ EntriesOf(content) # {}) =>
             /\ memories' = memories
             /\ embeddings' = embeddings
             /\ Cardinality(EntriesOf(content)') = 1
             /\ LastOf(stores').pc = "done"
             /\ \A c \in 1..Len(stores) :
                   (stores[c].content = content /\ stores[c].pc = "done")
                      => LastOf(stores').result = stores[c].result]_vars

\* the same content was stored twice with different arguments and the entry
\* has those of the first call
C19_Witness ==
    /\ Len(stores) = 2
    /\ stores[1].content = stores[2].content
    /\ stores[1].args # stores[2].args
    /\ stores[1].committed /\ ~stores[2].committed
    /\ stores[2].pc = "done"
    /\ \A k \in EntriesOf(stores[1].content) :
          memories[k].memory_type = stores[1].args.memory_type

\* C20: two calls of store_memory with the same new content, in whatever
\* order they pass the existence check and commit, return the same hash and
\* leave one entry for the content, never two.
C20_ConcurrentStoreOneEntry ==
    \A c1 \in 1..Len(stores), c2 \in 1..Len(stores) :
        (/\ stores[c1].pc = "done"
         /\ stores[c2].pc = "done"
         /\ stores[c1].content = stores[c2].content)
           => /\ stores[c1].result = stores[c2].result
              /\ stores[c1].result = generate_content_hash(stores[c1].content)
              /\ stores[c1].result \in DOMAIN memories
              /\ Cardinality(EntriesOf(stores[c1].content)) = 1

\* both calls passed the existence check before either wrote, and both wrote
C20_Witness ==
    /\ Len(stores) = 2
    /\ stores[1].content = stores[2].content
    /\ stores[1].committed /\ stores[2].committed

\* C21: after any sequence of store_memory, update_memory and delete_memory
\* calls every stored entry's id is the content hash of its current content,
\* so a content is stored exactly when store_memory would find its hash (and
\* be a no-op), and no two stored entries have the same content.
C21_IdIsHashOfContent ==
    /\ \A k \in DOMAIN memories :
          memories[k].id = generate_content_hash(memories[k].content)
    /\ \A content \in Contents :
          Exists(generate_content_hash(content)) <=> EntriesOf(content) # {}
    /\ \A content \in Contents : Cardinality(EntriesOf(content)) <= 1

\* --------------------------------------------------------- retrieval claims
\* the similarity of the stored entry k to a query embedding
SimilarityOf(k, query_embedding) ==
    cosine_similarity(query_embedding, memories[k].embedding)

\* a returned entry without the score retrieve_similar_memories adds
WithoutScore(m) == [key \in DOMAIN m \ {"similarity_score"} |-> m[key]]

\* C22: retrieve_similar_memories with similarity threshold 1.1 returns an
\* empty list for every query and every content of the store, because no
\* cosine similarity reaches 1.1.
C22_ThresholdAboveOneIsEmpty ==
    [][(/\ answer' # answer
        /\ answer'.op = "retrieve_similar_memories"
        /\ answer'.args[4] = 110)
          => answer'.value = <<>>]_vars

\* threshold 1.1 was asked with a positive limit and no type while the store
\* holds an entry whose vector is parallel to the query's
C22_Witness ==
    /\ answer.op = "retrieve_similar_memories"
    /\ answer.args[2] = None /\ answer.args[3] > 0 /\ answer.args[4] = 110
    /\ answer.value = <<>>
    /\ openai_client
    /\ \E k \in DOMAIN memories :
          SimilarityOf(k, ProviderVector(answer.args[1])) >= 100

\* C23: retrieve_similar_memories(query, limit, threshold) returns exactly
\* the stored entries whose cosine similarity to the query embedding is at
\* least the threshold, in non-increasing similarity order, cut to the first
\* limit: nothing returned is below the threshold, nothing is returned
\* twice, and no omitted entry is more similar than a returned one.
C23_SimilarAreTheTopOverThreshold ==
    [][(/\ answer' # answer
        /\ answer'.op = "retrieve_similar_memories"
        /\ answer'.args[2] = None) =>
          \E raises \in BOOLEAN :
          \E sim \in {[k \in DOMAIN memories |->
                         SimilarityOf(k, generate_embedding(answer'.args[1],
                                             openai_client, raises))]} :
             LET v  == answer'.value
                 limit == answer'.args[3]
                 similarity_threshold == answer'.args[4]
                 over == {k \in DOMAIN memories :
                             sim[k] >= similarity_threshold}
                 returned == {v[i].id : i \in 1..Len(v)} IN
             /\ Len(v) = IF limit < Cardinality(over) THEN limit
                                                       ELSE Cardinality(over)
             /\ Cardinality(returned) = Len(v)
             /\ returned \subseteq over
             /\ \A i \in 1..Len(v) :
                   /\ WithoutScore(v[i]) = memories[v[i].id]
                   /\ v[i].similarity_score = sim[v[i].id]
             /\ \A i \in 1..Len(v), j \in 1..Len(v) :
                   i < j => v[i].similarity_score >= v[j].similarity_score
             /\ \A k \in over \ returned, i \in 1..Len(v) :
                   sim[k] <= v[i].similarity_score]_vars

\* two entries were returned, the more similar one first although it was
\* stored last
C23_Witness ==
    /\ answer.op = "retrieve_similar_memories"
    /\ Len(answer.value) = 2
    /\ answer.value[1].similarity_score > answer.value[2].similarity_score
    /\ order = <<answer.value[2].id, answer.value[1].id>>

\* what a filter of the structured kinds asks of an entry
MeetsFilters(m, filters) ==
    /\ "min_importance" \in DOMAIN filters
          => m.importance_score >= filters.min_importance
    /\ "max_importance" \in DOMAIN filters
          => m.importance_score <= filters.max_importance
    /\ "date_from" \in DOMAIN filters
          => /\ IsIsoformat(filters.date_from)
             /\ fromisoformat(m.created_at) >= fromisoformat(filters.date_from)
    /\ "date_to" \in DOMAIN filters
          => /\ IsIsoformat(filters.date_to)
             /\ fromisoformat(m.created_at) <= fromisoformat(filters.date_to)
    /\ "metadata_filters" \in DOMAIN filters
          => \A key \in DOMAIN filters.metadata_filters :
                /\ key \in DOMAIN m.metadata
                /\ m.metadata[key] = filters.metadata_filters[key]

\* C24: retrieve_memories(query, type, limit, filters) returns at most
\* limit entries in non-increasing importance order; every returned entry
\* has the requested memory type, contains the query whatever the case of
\* the letters and meets every structured filter; no stored entry that
\* meets all of these with a higher importance than a returned one is left
\* out.
C24_RetrievedMatchTheRequest ==
    [][(answer' # answer /\ answer'.op = "retrieve_memories") =>
          LET v == answer'.value
              query == answer'.args[1]
              memory_type == answer'.args[2]
              limit == answer'.args[3]
              filters == answer'.args[4]
              Meets(m) == /\ m.memory_type = memory_type
                          /\ Contains(lower(m.content), lower(query))
                          /\ MeetsFilters(m, filters) IN
          /\ Len(v) <= limit
          /\ \A i \in 1..Len(v), j \in 1..Len(v) :
                i < j => v[i].importance_score >= v[j].importance_score
          /\ \A i \in 1..Len(v) :
                /\ v[i].id \in DOMAIN memories
                /\ v[i] = memories[v[i].id]
                /\ Meets(v[i])
          /\ \A k \in DOMAIN memories, i \in 1..Len(v) :
                (/\ Meets(memories[k])
                 /\ memories[k].importance_score > v[i].importance_score)
                   => \E j \in 1..Len(v) : v[j].id = k]_vars

\* C25: when the manager has no provider client, or the provider's call
\* fails, store_memory still stores the entry, with the vector derived from
\* the digest or the zero vector, and returns the content hash: every call
\* that gets to the embedding ends with the entry stored, whatever the
\* provider did; and retrieve_similar_memories still answers with a list of
\* stored entries.
C25_EmbeddingFailureIsAbsorbed ==
    [][/\ \A c \in 1..Len(stores) :
            (stores[c].pc = "embedding" /\ stores'[c].pc = "done") =>
               LET content == stores[c].content
                   h == generate_content_hash(content) IN
               /\ stores'[c].committed
               /\ stores'[c].result = h
               /\ h \in DOMAIN memories' /\ h \in DOMAIN embeddings'
               /\ memories'[h].content = content
               /\ memories'[h].embedding \in
                     (IF openai_client
                      THEN {ProviderVector(content), ZeroVector}
                      ELSE {HashVector(content)})
               /\ embeddings'[h] = memories'[h].embedding
       /\ (answer' # answer /\ answer'.op = "retrieve_similar_memories") =>
               /\ DOMAIN answer'.value = 1..Len(answer'.value)
               /\ \A i \in 1..Len(answer'.value) :
                     answer'.value[i].id \in DOMAIN memories]_vars

\* the provider failed on a store and the entry is there with the zero
\* vector; a later retrieval answered with it
C25_Witness ==
    /\ openai_client
    /\ \E c \in 1..Len(stores) :
          /\ stores[c].committed
          /\ stores[c].result \in DOMAIN memories
          /\ memories[stores[c].result].embedding = ZeroVector
          /\ answer.op = "retrieve_similar_memories"
          /\ \E i \in 1..Len(answer.value) :
                answer.value[i].id = stores[c].result

\* C26: delete_memory(id) of a stored entry returns true and removes that
\* entry and its embedding, leaving every other entry as it was, so a later
\* retrieval of everything returns the entries that are left; delete_memory
\* of an id that is not stored returns false and changes nothing; a
\* store_memory of the deleted content afterwards is no no-op and creates the
\* entry with the arguments of that call.
C26_DeleteRemovesExactlyOne ==
    [][/\ \A memory_id \in MemoryIds :
            delete_memory(memory_id) =>
               IF memory_id \in DOMAIN memories
               THEN /\ answer'.value = TRUE
                    /\ DOMAIN memories' = DOMAIN memories \ {memory_id}
                    /\ DOMAIN embeddings' = DOMAIN embeddings \ {memory_id}
                    /\ \A k \in DOMAIN memories' :
                          /\ memories'[k] = memories[k]
                          /\ embeddings'[k] = embeddings[k]
               ELSE /\ answer'.value = FALSE
                    /\ memories' = memories
                    /\ embeddings' = embeddings
       /\ retrieve_memories(<<>>, "general", 2, EmptyDict) =>
             /\ {answer'.value[i].id : i \in 1..Len(answer'.value)}
                   = DOMAIN memories
             /\ \A i \in 1..Len(answer'.value) :
                   answer'.value[i] = memories[answer'.value[i].id]
       /\ \A content \in Contents, args \in StoreArgs :
            (/\ store_memory(content, args)
             /\ generate_content_hash(content) \notin DOMAIN memories)
               => LastOf(stores').pc = "embedding"
       /\ \A c \in 1..MaxStores :
            (/\ StoreCommit(c, FALSE)
             /\ generate_content_hash(stores[c].content) \notin DOMAIN memories)
               => LET h == generate_content_hash(stores[c].content) IN
                  /\ h \in DOMAIN memories'
                  /\ memories'[h].content = stores[c].content
                  /\ memories'[h].memory_type = stores[c].args.memory_type
                  /\ stores'[c].result = h]_vars

\* an entry was stored, deleted and stored again with other arguments: the
\* entry has the arguments of the later call
C26_Witness ==
    /\ Len(stores) = 2
    /\ stores[1].content = stores[2].content
    /\ stores[1].args # stores[2].args
    /\ stores[1].committed /\ stores[2].committed
    /\ answer.op = "delete_memory" /\ answer.value = TRUE
    /\ answer.args[1] = stores[1].result
    /\ stores[2].result \in DOMAIN memories
    /\ memories[stores[2].result].memory_type = stores[2].args.memory_type

\* ------------------------------------------------------------ agent claims
\* C27: one call of execute invokes _execute_impl at most 3 times and has
\* at most 3 failed attempts before it raises.
C27_AtMostThreeInvocations ==
    /\ exec.invoked <= 3
    /\ Len(exec.errors) <= 3

\* C28: every failed attempt of execute, the last one included, is recorded
\* through handle_error in the step that fails it, before the backoff or the
\* propagation: status Error, error_message set from the exception and the
\* attempt number, and an "error"-typed memory of importance 0.9 asked for;
\* and what execute raises in the end is the exception of its last attempt.
C28_EveryFailureRecorded ==
    [][/\ Len(exec'.errors) > Len(exec.errors) =>
            LET error == LastOf(exec'.errors)
                context == <<"execution attempt", ToString(Len(exec'.errors))>>
            IN
            /\ Len(exec'.errors) = Len(exec.errors) + 1
            /\ agent'.status = "error"
            /\ agent'.state.status = "error"
            /\ agent'.state.error_message # <<>>
            /\ agent'.state.error_message = ErrorMsg(error, context)
            /\ requested' = Append(requested,
                    [ content |-> ErrorMsg(error, context),
                      memory_type |-> "error", importance_score |-> 90 ])
            /\ exec'.pc \in {"sleep", "raised"}
       /\ (exec.pc # "raised" /\ exec'.pc = "raised") =>
            /\ Len(exec'.errors) = Len(exec.errors) + 1
            /\ exec'.raised = LastOf(exec'.errors)
       /\ (exec.pc = "sleep" /\ exec'.pc # "sleep") =>
            /\ exec'.pc = "trace"
            /\ exec'.errors = exec.errors]_vars

\* every attempt of a call failed, with different exceptions, and the call
\* raised the last one after recording it
C28_Witness ==
    /\ exec.pc = "raised"
    /\ Len(exec.errors) = agent_max_retries + 1
    /\ exec.errors[1] # LastOf(exec.errors)
    /\ exec.raised = LastOf(exec.errors)
    /\ agent.status = "error"
    /\ Len(requested) = Len(exec.errors)
    /\ LastOf(requested).content = agent.state.error_message

\* C29: under any sequence of lifecycle operations the status moves only
\* idle -> busy, busy -> completed and busy -> error, until reset() returns
\* it to idle: never from completed or error to busy or to each other, and
\* never from idle to completed.
C29_StatusMovesForward ==
    [][agent'.status # agent.status =>
          \/ agent' = BaseAgent(clock)
          \/ <<agent.status, agent'.status>> \in
                { <<"idle", "busy">>, <<"busy", "completed">>,
                  <<"busy", "error">> }]_vars

\* C30: after any sequence of lifecycle operations and any argument of
\* update_progress, below 0, above 1 or in between, task_progress is within
\* [0, 1]: update_progress stores its argument clamped, start_task stores 0
\* and complete_task stores 1.
C30_ProgressWithinBounds ==
    [][/\ agent.state.task_progress \in 0..100
       /\ agent'.state.task_progress \in 0..100
       /\ \A progress \in Progresses :
            update_progress(progress) =>
               agent'.state.task_progress =
                  (IF progress < 0 THEN 0
                   ELSE IF progress > 100 THEN 100 ELSE progress)
       /\ \A task_description \in Descriptions :
            start_task(task_description) => agent'.state.task_progress = 0
       /\ \A result \in TaskResults :
            complete_task(result) => agent'.state.task_progress = 100]_vars

\* a completed task had its progress set from a negative argument
C30_Witness ==
    /\ agent.status = "completed"
    /\ agent.state.task_progress = 0

\* C31: reset(), in whatever status the agent is, sets the status to idle
\* and clears the current task, the progress and the last error, and leaves
\* the agent's id, type and name and every memory stored or asked for
\* before as they were.
C31_ResetClearsTheTaskOnly ==
    [][reset =>
          /\ agent'.status = "idle"
          /\ agent'.state.status = "idle"
          /\ agent'.state.current_task = None
          /\ agent'.state.task_progress = 0
          /\ agent'.state.error_message = <<>>
          /\ agent'.agent_id = agent.agent_id
          /\ agent'.state.agent_id = agent.agent_id
          /\ agent'.agent_type = agent.agent_type
          /\ agent'.name = agent.name
          /\ agent'.memories = agent.memories
          /\ requested' = requested
          /\ memories' = memories
          /\ embeddings' = embeddings]_vars

\* an agent that failed, with the memory of its error asked for, was reset
C31_Witness ==
    /\ agent.status = "idle"
    /\ agent.state.error_message = <<>>
    /\ agent.state.current_task = None
    /\ agent.name = "Research Agent"
    /\ \E i \in 1..Len(requested) : requested[i].memory_type = "error"

\* C39: after any sequence of lifecycle operations (initialize without
\* configuration, start_task, update_progress, complete_task, handle_error,
\* reset) the agent's own status equals the status of its state record, and
\* error_message is set whenever the status is error.
C39_StatusAgreesWithState ==
    /\ agent.status = agent.state.status
    /\ agent.status = "error" => agent.state.error_message # <<>>

\* an agent that completed a task with a result failed in a later task
C39_Witness ==
    /\ agent.status = "error"
    /\ agent.state.status = "error"
    /\ agent.state.current_task # None
    /\ Len(requested) = 2
    /\ requested[1].memory_type = "task_result"
    /\ agent.state.error_message = requested[2].content

\* ------------------------------------------------------ persistence claims
\* the most recent call of save_workflow_state for a workflow, if any
LastSave(workflow_id) ==
    LET made == SelectSeq(saves, LAMBDA s : s.workflow_id = workflow_id)
    IN  IF made = <<>> THEN <<>> ELSE <<made[Len(made)]>>

\* C32: after any sequence of saves of a workflow id, under the same or
\* different statuses, load_workflow_state(id) returns the state (as JSON
\* reads it back) and the status of the most recent save, and nothing for
\* an id that was never saved.
C32_LoadReturnsLatestSave ==
    [][\A workflow_id \in PersistedIds :
          load_workflow_state(workflow_id) =>
             LET last == LastSave(workflow_id) IN
             IF last = <<>> THEN pret'.value = <<>>
             ELSE /\ Len(pret'.value) = 1
                  /\ pret'.value[1].workflow_id = workflow_id
                  /\ pret'.value[1].status = last[1].status
                  /\ pret'.value[1].state =
                        [k \in DOMAIN last[1].state |->
                            JsonValue(last[1].state[k])]]_vars

\* C38: after any sequence of saves, status updates and archiving, each
\* workflow id is stored in at most one of the directories active,
\* completed, failed and archived, and the status field of its record names
\* the directory that holds it.
C38_OnePartitionPerWorkflow ==
    \A workflow_id \in PersistedIds :
       /\ Cardinality({d \in DOMAIN files :
                          workflow_id \in DOMAIN files[d]}) <= 1
       /\ \A d \in DOMAIN files :
             workflow_id \in DOMAIN files[d] =>
                json_load(files[d][workflow_id]).status = d

\* --------------------------------------------------- orchestrator claims 2
\* C36: in every state the orchestrator reaches and for every execution id,
\* known or not, pause_workflow returns true exactly when the execution's
\* status is "running" and then sets only that status, to "paused";
\* resume_workflow returns true exactly when it is "paused" and then sets
\* it to "running"; in every other case they return false and leave every
\* execution record as it is.
C36_PauseResumeOnlyFromTheirStatus ==
    \A e \in ExecutionIds :
       \E p \in {Pause(workflows, e)}, r \in {Resume(workflows, e)} :
          /\ p.value = (e \in DOMAIN workflows /\ workflows[e].status = "running")
          /\ r.value = (e \in DOMAIN workflows /\ workflows[e].status = "paused")
          /\ p.value => p.workflows = [workflows EXCEPT ![e].status = "paused"]
          /\ r.value => r.workflows = [workflows EXCEPT ![e].status = "running"]
          /\ ~p.value => p.workflows = workflows
          /\ ~r.value => r.workflows = workflows

\* an execution was paused in the middle of a run of its graph, while
\* another id is unknown to the orchestrator
C36_Witness ==
    /\ \E e \in ExecutionIds : e \notin DOMAIN workflows
    /\ \E t \in TaskIds :
          /\ workflows[tasks[t].execution_id].status = "paused"
          /\ tasks[t].pc = "running"
          /\ tasks[t].flagged = 0
          /\ Len(tasks[t].run.trace) > 1

\* C33: once an execution is cancelled, by cancel_workflow or by stop(),
\* its status stays "cancelled" in every later state: its background task,
\* in a run or waiting for a retry, never sets it to "running", "completed"
\* or "error".
C33_CancelledStaysCancelled ==
    [][\A e \in DOMAIN workflows :
          workflows[e].status = "cancelled" =>
             /\ e \in DOMAIN workflows'
             /\ workflows'[e].status = "cancelled"]_vars

\* C34: the snapshot of an execution shows "error", with end_time set, only
\* when its last attempt has failed: never while a retry is pending or
\* running, so that "error" is never followed by "running" or "completed".
C34_ErrorOnlyAfterLastAttempt ==
    [][\A t \in TaskIds :
          \E snapshot \in {get_workflow_status(tasks[t].execution_id)} :
             snapshot.status = "error" =>
                /\ snapshot.end_time # NoTime
                /\ tasks[t].pc \in {"raised", "done"}
                /\ workflows'[tasks[t].execution_id].status
                      \notin {"running", "completed"}]_vars

\* ------------------------------------------------------------ hub claims 2
\* C35: at any time at most one dispatch loop of a hub is active, whatever
\* the calls of start() and stop(): start() called twice, or stop()
\* followed by start() before the old loop has seen the flag cleared.
C35_AtMostOneLoop ==
    Cardinality({l \in LoopIdx : loops[l].pc # "exited"}) <= 1

\* C37: the dispatch loop reads a mailbox only when its agent has a
\* handler: of an agent with an empty handler list the loop holds, handles
\* and marks delivered nothing, every message accepted for it has been taken
\* by a get_messages caller or still waits in the mailbox, and a get_messages
\* call that returns has returned every message accepted and not returned
\* before.
C37_NoHandlerNoDrain ==
    /\ [](\A e \in Slots(entries) :
            entries[e].handlers = 0 =>
               /\ entries[e].handled = <<>>
               /\ entries[e].delivered = <<>>
               /\ \A l \in LoopIdx : InHand(l, e) = <<>>
               /\ entries[e].sent = Taken(e) \o Ids(entries[e].queue))
    /\ [][(getter.pc # "idle" /\ getter'.pc = "idle"
             /\ entries[getter.e].handlers = 0)
          => /\ entries'[getter.e].returned = entries'[getter.e].sent
             /\ entries[getter.e].returned \o ret'.value
                   = entries'[getter.e].sent]_vars

\* the loop delivered the message of an agent with a handler, passed over
\* the mailbox of an agent without one, and an outside reader got that
\* agent's message
C37_Witness ==
    \E e1 \in Slots(entries), e2 \in Slots(entries) :
        /\ entries[e1].handlers = 0
        /\ e1 < e2
        /\ entries[e2].handlers > 0
        /\ entries[e2].delivered # <<>>
        /\ entries[e1].sent # <<>>
        /\ entries[e1].returned = entries[e1].sent
        /\ \E l \in LoopIdx : loops[l].pc = "top"

\* C40: when CoordinatorAgent.execute has returned, either the researcher,
\* the writer and the editor ran once each in that order, or the agents that
\* ran are a non-empty prefix of that order whose last one failed, the
\* result has status "error" and the coordinator's status is "error".
C40_PhasesInOrderUntilFailure ==
    coord.pc = "returned" =>
        \/ coord.ran = PhaseAgents
        \/ /\ coord.ran # <<>>
           /\ Len(coord.ran) <= Len(PhaseAgents)
           /\ coord.ran = SubSeq(PhaseAgents, 1, Len(coord.ran))
           /\ coord.agent_statuses[coord.ran[Len(coord.ran)]] = "error"
           /\ coord.result[1].status = "error"
           /\ coord.self.status = "error"
====
